---------------------------- MODULE Spec2Model ----------------------------
(***************************************************************************)
(* Model of the hybrid text-extraction and response-recovery pipeline of   *)
(* CivilModel_Backend: OCRService (needs_ocr, clean_text, process_pdf) and *)
(* ParserService (clean_llm_json and its helpers).                         *)
(*                                                                         *)
(* A Python str is a sequence of Unicode code points (naturals).  None is  *)
(* the one-element sequence <<-1>>, which is no string.                    *)
(***************************************************************************)
EXTENDS Integers, Sequences, FiniteSets, TLC

VARIABLES
    text, npc, needs_result,                  \* one call of needs_ocr
    clean_in, cpc, clean_once, clean_twice,   \* clean_text applied once / twice
    \* OCRService() and one call of process_pdf
    tesseract,      \* whether pytesseract finds the engine: "found" or "missing"
    num_pages,      \* len(pdf.pages) of the document at pdf_path
    max_pages,      \* the page limit: <<>> for None, <<k>> for the integer k
    ppc,            \* "new", "RuntimeError", "call", "loop", "returned" or "raised"
    page_num,       \* pages the loop has gone through
    metadata, all_text,
    page_log,       \* per page: what the extractors gave and the strategy taken
    cleaned_text,
    \* one call of clean_llm_json
    original_output,  \* the raw model output the call was given
    llm_output,       \* the working text: a fenced block replaces it
    extracted_json,   \* the located candidate text, None before it is located
    fixed_json,       \* the candidate after _fix_common_json_issues
    jpc,              \* "call", "locate", "parse", "repair", "partial",
                      \* "returned" or "raised"
    jresult,          \* the value returned or the error raised
    jlog,             \* the progress messages printed so far
    \* one call of LLMService.generate_response
    retries_arg,    \* the argument max_retries: <<>> for None, <<k>> for the integer k
    max_retries,    \* the local max_retries after its first line
    lpc,            \* "call", "attempt", "returned" or "raised"
    attempt,        \* the loop variable
    calls,          \* what the provider did on each call so far
    sleeps,         \* the arguments of time.sleep so far, each with the attempt it followed
    response,       \* the value returned or the exception raised
    \* the document store, the POST /process requests and the background tasks
    storage,        \* InMemoryDB._storage: the record of each document id, or NoDocument
    tasks,          \* the background tasks in the order they were added
    responses,      \* what each POST /process/{doc_id} answered
    clock           \* the readings of datetime.utcnow() so far

needs_vars == <<text, npc, needs_result>>
clean_vars == <<clean_in, cpc, clean_once, clean_twice>>
pdf_vars == <<tesseract, num_pages, max_pages, ppc, page_num, metadata, all_text, page_log,
              cleaned_text>>
json_vars == <<original_output, llm_output, extracted_json, fixed_json, jpc, jresult,
               jlog>>
llm_vars == <<retries_arg, max_retries, lpc, attempt, calls, sleeps, response>>
doc_vars == <<storage, tasks, responses, clock>>
vars == <<needs_vars, clean_vars, pdf_vars, json_vars, llm_vars, doc_vars>>

None == << -1 >>

(***************************************************************************)
(* Characters                                                              *)
(***************************************************************************)
TAB == 9
LF == 10
SPACE == 32
DQUOTE == 34
SQUOTE == 39
HYPHEN == 45
SLASH == 47
DIGIT_1 == 49
LOWER_A == 97
UNDERSCORE == 95
E_ACUTE == 233
SINHALA_FIRST == 3456
SINHALA_LAST == 3583
TAMIL_FIRST == 2944
TAMIL_LAST == 3071
SINHALA_AYANNA == 3461
TAMIL_A == 2949

Lower == 97..122
Upper == 65..90
AsciiDigits == 48..57
SinhalaBlock == SINHALA_FIRST..SINHALA_LAST
TamilBlock == TAMIL_FIRST..TAMIL_LAST

\* str.isspace(), and \s of a str pattern: the Unicode white space
WhiteSpace ==
    (9..13) \cup (28..32) \cup {133, 160, 5760} \cup (8192..8202)
        \cup {8232, 8233, 8239, 8287, 12288}

IsSpace(c) == c \in WhiteSpace

\* the punctuation listed in the class [a-zA-Z0-9\s.,;:!?\-\'\"()\[\]{}/@#$%&*+=<>\n]
ListedPunctuation ==
    {46, 44, 59, 58, 33, 63, 45, 39, 34, 40, 41, 91, 93, 123, 125,
     47, 64, 35, 36, 37, 38, 42, 43, 61, 60, 62}

IsAsciiClass(c) ==
    \/ c \in Lower \/ c \in Upper \/ c \in AsciiDigits
    \/ IsSpace(c) \/ c \in ListedPunctuation

IsSinhala(c) == c \in SinhalaBlock
IsTamil(c) == c \in TamilBlock

(***************************************************************************)
(* Sequence helpers                                                        *)
(***************************************************************************)
Rep(c, n) == [i \in 1..n |-> c]

SetMin(S) == CHOOSE x \in S : \A y \in S : x <= y
SetMax(S) == CHOOSE x \in S : \A y \in S : y <= x

Min2(a, b) == IF a <= b THEN a ELSE b
Max2(a, b) == IF a >= b THEN a ELSE b

\* s[i:j] of Python with 1-based inclusive i and exclusive j
Slice(s, i, j) == IF j <= i THEN <<>> ELSE SubSeq(s, i, j - 1)

RECURSIVE SkipSpace(_, _)
\* first index >= i of s that holds no white space (Len(s)+1 when none)
SkipSpace(s, i) ==
    IF i <= Len(s) /\ IsSpace(s[i]) THEN SkipSpace(s, i + 1) ELSE i

RECURSIVE SkipSpaceBack(_, _)
\* last index <= j of s that holds no white space (0 when none)
SkipSpaceBack(s, j) ==
    IF j >= 1 /\ IsSpace(s[j]) THEN SkipSpaceBack(s, j - 1) ELSE j

\* str.strip()
strip(s) ==
    LET i == SkipSpace(s, 1)
        j == SkipSpaceBack(s, Len(s))
    IN  Slice(s, i, j + 1)

(***************************************************************************)
(* OCRService.needs_ocr                                                    *)
(***************************************************************************)
MIN_STRIPPED_CHARS == 10
SINHALA_PERCENT == 1
OTHER_PERCENT == 20
ASCII_PERCENT == 80

AsciiClass == Lower \cup Upper \cup AsciiDigits \cup WhiteSpace \cup ListedPunctuation

\* len(re.findall(r'[class]', text))
CountIn(s, class) == Cardinality({i \in 1..Len(s) : s[i] \in class})

\* count / total_chars > percent / 100, for total_chars > 0.  The code divides
\* floats; for page lengths far below 2^53 the correctly rounded quotient
\* compares with the literal as the exact fractions do.
RatioExceeds(count, total_chars, percent) == 100 * count > percent * total_chars

\* `not text`
Falsy(s) == s = None \/ s = <<>>

\* RULE 1 answering "fast path" where the code answers "OCR"
needs_ocr_rule1_inverted(s) ==
    IF Falsy(s) \/ Len(strip(s)) < MIN_STRIPPED_CHARS THEN FALSE
    ELSE LET total_chars == Len(s)
             ascii_chars == CountIn(s, AsciiClass)
             sinhala_chars == CountIn(s, SinhalaBlock)
             tamil_chars == CountIn(s, TamilBlock)
             other_chars == total_chars - ascii_chars - sinhala_chars - tamil_chars
         IN  IF RatioExceeds(sinhala_chars, total_chars, SINHALA_PERCENT)
                \/ tamil_chars > 0 THEN FALSE
             ELSE IF RatioExceeds(other_chars, total_chars, OTHER_PERCENT) THEN TRUE
             ELSE IF RatioExceeds(ascii_chars, total_chars, ASCII_PERCENT) THEN FALSE
             ELSE TRUE

\* RULE 3 written with >= where the code has >
needs_ocr_rule3_inclusive(s) ==
    IF Falsy(s) \/ Len(strip(s)) < MIN_STRIPPED_CHARS THEN TRUE
    ELSE LET total_chars == Len(s)
             ascii_chars == CountIn(s, AsciiClass)
             sinhala_chars == CountIn(s, SinhalaBlock)
             tamil_chars == CountIn(s, TamilBlock)
             other_chars == total_chars - ascii_chars - sinhala_chars - tamil_chars
         IN  IF RatioExceeds(sinhala_chars, total_chars, SINHALA_PERCENT)
                \/ tamil_chars > 0 THEN TRUE
             ELSE IF RatioExceeds(other_chars, total_chars, OTHER_PERCENT) THEN TRUE
             ELSE IF 100 * ascii_chars >= ASCII_PERCENT * total_chars THEN FALSE
             ELSE TRUE

needs_ocr(s) ==
    IF Falsy(s) \/ Len(strip(s)) < MIN_STRIPPED_CHARS THEN TRUE
    ELSE LET total_chars == Len(s)
             ascii_chars == CountIn(s, AsciiClass)
             sinhala_chars == CountIn(s, SinhalaBlock)
             tamil_chars == CountIn(s, TamilBlock)
             other_chars == total_chars - ascii_chars - sinhala_chars - tamil_chars
         IN  IF RatioExceeds(sinhala_chars, total_chars, SINHALA_PERCENT)
                \/ tamil_chars > 0 THEN TRUE
             ELSE IF RatioExceeds(other_chars, total_chars, OTHER_PERCENT) THEN TRUE
             ELSE IF RatioExceeds(ascii_chars, total_chars, ASCII_PERCENT) THEN FALSE
             ELSE TRUE

(***************************************************************************)
(* Inputs of needs_ocr: mixtures of the four character classes around the  *)
(* thresholds, and runs of one character.                                  *)
(***************************************************************************)
MaxPad == 1
MaxAscii == 100
MaxSinhala == 2
MaxTamil == 1
MaxOther == 20
MaxRun == 12

MixTexts ==
    { Rep(SPACE, p) \o Rep(LOWER_A, a) \o Rep(SINHALA_AYANNA, si)
          \o Rep(TAMIL_A, ta) \o Rep(UNDERSCORE, o) :
        p \in 0..MaxPad, a \in 0..MaxAscii, si \in 0..MaxSinhala,
        ta \in 0..MaxTamil, o \in 0..MaxOther }

\* every printable ASCII character but the space, both script blocks' ends,
\* and one Latin-1 letter
ProbeChars ==
    (33..126) \cup {SINHALA_FIRST, SINHALA_AYANNA, SINHALA_LAST,
                    TAMIL_FIRST, TAMIL_A, TAMIL_LAST, E_ACUTE}

RunTexts == { Rep(c, n) : c \in ProbeChars, n \in 1..MaxRun }

NeedsInputs == {None} \cup MixTexts \cup RunTexts

NeedsInit == text \in NeedsInputs /\ npc = "call" /\ needs_result = FALSE
NeedsIdle == text = <<>> /\ npc = "idle" /\ needs_result = FALSE

Classify ==
    /\ npc = "call"
    /\ needs_result' = needs_ocr(text)
    /\ npc' = "returned"
    /\ UNCHANGED text

(***************************************************************************)
(* Regular-expression pieces used by OCRService.clean_text                 *)
(***************************************************************************)
\* \d of a str pattern: the decimal digits of the Basic Multilingual Plane,
\* ten from each zero
DigitZeros ==
    {48, 1632, 1776, 1984, 2406, 2534, 2662, 2790, 2918, 3046, 3174, 3302,
     3430, 3558, 3664, 3792, 3872, 4160, 4240, 6112, 6160, 6470, 6608, 6784,
     6800, 6992, 7088, 7232, 7248, 42528, 43216, 43264, 43472, 43504, 43600,
     44016, 65296}

IsDigit(c) == \E z \in DigitZeros : c \in z..(z + 9)

\* \w of a str pattern, for Latin-1, the Tamil and Sinhala blocks and the
\* letters the encoding table and the case folding name; letters of other
\* blocks do not occur in the inputs
WordLetters ==
    (65..90) \cup {95} \cup (97..122) \cup {170} \cup (178..179) \cup {181}
      \cup (185..186) \cup (188..190) \cup (192..214) \cup (216..246)
      \cup (248..255) \cup {304, 305, 339, 383}
      \cup {2947} \cup (2949..2954) \cup (2958..2960) \cup (2962..2965)
      \cup (2969..2970) \cup {2972} \cup (2974..2975) \cup (2979..2980)
      \cup (2984..2986) \cup (2990..3001) \cup {3024} \cup (3056..3058)
      \cup (3461..3478) \cup (3482..3505) \cup (3507..3515) \cup {3517}
      \cup (3520..3526)

IsWord(c) == c \in WordLetters \/ IsDigit(c)

\* the character a letter of an ASCII literal matches under (?i)
Fold(c) ==
    IF c \in Upper THEN c + 32
    ELSE IF c = 383 THEN 115
    ELSE IF c \in {304, 305} THEN 105
    ELSE c

StartsWith(s, i, lit) ==
    /\ i >= 1
    /\ i + Len(lit) - 1 <= Len(s)
    /\ \A k \in 1..Len(lit) : s[i + k - 1] = lit[k]

\* lit is lower case
StartsWithCI(s, i, lit) ==
    /\ i >= 1
    /\ i + Len(lit) - 1 <= Len(s)
    /\ \A k \in 1..Len(lit) : Fold(s[i + k - 1]) = lit[k]

RECURSIVE SkipDigits(_, _)
SkipDigits(s, i) ==
    IF i <= Len(s) /\ IsDigit(s[i]) THEN SkipDigits(s, i + 1) ELSE i

RECURSIVE SkipWord(_, _)
SkipWord(s, i) ==
    IF i <= Len(s) /\ IsWord(s[i]) THEN SkipWord(s, i + 1) ELSE i

LitScanned == <<115, 99, 97, 110, 110, 101, 100>>
LitScanner == <<115, 99, 97, 110, 110, 101, 114>>
LitBy == <<98, 121>>
LitWith == <<119, 105, 116, 104>>
LitPage == <<112, 97, 103, 101>>
LitOf == <<111, 102>>

\* Each Match operator gives the index after the match of its pattern that
\* starts at i, following the engine's greedy choices, or 0 when there is none.

\* (?i)scanned\s+(?:by|with)\s+\w+scanner
MatchScanned(s, i) ==
    IF ~StartsWithCI(s, i, LitScanned) THEN 0
    ELSE LET a == i + 7
             b == SkipSpace(s, a)
             c == IF StartsWithCI(s, b, LitBy) THEN b + 2
                  ELSE IF StartsWithCI(s, b, LitWith) THEN b + 4 ELSE 0
             d == SkipSpace(s, c)
             e == SkipWord(s, d)
             \* \w+ is greedy: the last "scanner" of the word wins
             ps == {q \in (d + 1)..(e - 7) : StartsWithCI(s, q, LitScanner)}
         IN  IF b = a \/ c = 0 \/ d = c \/ ps = {} THEN 0
             ELSE SetMax(ps) + 7

\* (?i)page\s+\d+\s+of\s+\d+
MatchPageOf(s, i) ==
    IF ~StartsWithCI(s, i, LitPage) THEN 0
    ELSE LET a == i + 4
             b == SkipSpace(s, a)
             c == SkipDigits(s, b)
             d == SkipSpace(s, c)
             e == d + 2
             f == SkipSpace(s, e)
             g == SkipDigits(s, f)
         IN  IF b = a \/ c = b \/ d = c \/ ~StartsWithCI(s, d, LitOf)
                \/ f = e \/ g = f THEN 0
             ELSE g

\* (?i)page\s+\d+/\d+
MatchPageSlash(s, i) ==
    IF ~StartsWithCI(s, i, LitPage) THEN 0
    ELSE LET a == i + 4
             b == SkipSpace(s, a)
             c == SkipDigits(s, b)
             d == SkipDigits(s, c + 1)
         IN  IF b = a \/ c = b \/ c > Len(s) THEN 0
             ELSE IF s[c] # SLASH \/ d = c + 1 THEN 0
             ELSE d

\* \b\d+\s+of\s+\d+\b
MatchNOfM(s, i) ==
    IF i > Len(s) THEN 0
    ELSE IF ~IsDigit(s[i]) \/ (i > 1 /\ IsWord(s[i - 1])) THEN 0
    ELSE LET c == SkipDigits(s, i)
             d == SkipSpace(s, c)
             e == d + 2
             f == SkipSpace(s, e)
             g == SkipDigits(s, f)
         IN  IF d = c \/ ~StartsWith(s, d, LitOf) \/ f = e \/ g = f THEN 0
             ELSE IF g <= Len(s) /\ IsWord(s[g]) THEN 0
             ELSE g

\* -\s*\d+\s*-
MatchDashNumber(s, i) ==
    IF i > Len(s) THEN 0
    ELSE IF s[i] # HYPHEN THEN 0
    ELSE LET b == SkipSpace(s, i + 1)
             c == SkipDigits(s, b)
             d == SkipSpace(s, c)
         IN  IF c = b \/ d > Len(s) THEN 0
             ELSE IF s[d] # HYPHEN THEN 0
             ELSE d + 1

\* ^\s*\d+\s*$ with re.MULTILINE: \s* also runs over line ends, and $ holds at
\* the end of the text and before a line feed
MatchLineNumber(s, i) ==
    IF i > Len(s) \/ (i > 1 /\ s[Max2(i - 1, 1)] # LF) THEN 0
    ELSE LET b == SkipSpace(s, i)
             c == SkipDigits(s, b)
             d == SkipSpace(s, c)
             ends == {q \in c..(d - 1) : s[q] = LF}
         IN  IF c = b THEN 0
             ELSE IF d > Len(s) THEN d
             ELSE IF ends = {} THEN 0
             ELSE SetMax(ends)

MatchEnd(pattern, s, i) ==
    CASE pattern = "scanned" -> MatchScanned(s, i)
      [] pattern = "page_of" -> MatchPageOf(s, i)
      [] pattern = "page_slash" -> MatchPageSlash(s, i)
      [] pattern = "n_of_m" -> MatchNOfM(s, i)
      [] pattern = "dash_number" -> MatchDashNumber(s, i)
      [] pattern = "line_number" -> MatchLineNumber(s, i)

RECURSIVE SubFrom(_, _, _)
\* the text from i on with every match deleted: up to the leftmost match that
\* starts at i or later, then on from the end of that match
SubFrom(pattern, s, i) ==
    LET starts == {j \in i..Len(s) : MatchEnd(pattern, s, j) > 0}
    IN  IF starts = {} THEN Slice(s, i, Len(s) + 1)
        ELSE Slice(s, i, SetMin(starts))
               \o SubFrom(pattern, s, MatchEnd(pattern, s, SetMin(starts)))

\* re.sub(pattern, '', s): every match, left to right, none overlapping
sub_empty(pattern, s) == SubFrom(pattern, s, 1)

(***************************************************************************)
(* OCRService.clean_text                                                   *)
(***************************************************************************)
RECURSIVE ReplaceFrom(_, _, _, _)
ReplaceFrom(s, i, old, new) ==
    LET starts == {j \in i..Len(s) : StartsWith(s, j, old)}
    IN  IF starts = {} THEN Slice(s, i, Len(s) + 1)
        ELSE Slice(s, i, SetMin(starts)) \o new
               \o ReplaceFrom(s, SetMin(starts) + Len(old), old, new)

\* str.replace(old, new) for a non-empty old
replace(s, old, new) == ReplaceFrom(s, 1, old, new)

\* encoding_fixes as the dict literal builds it: the key U+00E2 U+20AC U+0022
\* is written twice, so it keeps its first place and its second value
encoding_fixes ==
    << << <<226, 8364, 8482>>, <<39>> >>,
       << <<226, 8364, 339>>, <<34>> >>,
       << <<226, 8364>>, <<34>> >>,
       << <<226, 8364, 34>>, <<8211>> >>,
       << <<226, 8364, 162>>, <<8226>> >>,
       << <<194>>, <<>> >>,
       << <<226>>, <<39>> >>,
       << <<195, 162>>, <<226>> >>,
       << <<195, 164>>, <<228>> >>,
       << <<195, 182>>, <<246>> >>,
       << <<195, 188>>, <<252>> >>,
       << <<195, 169>>, <<233>> >>,
       << <<195, 168>>, <<232>> >> >>

RECURSIVE ApplyFixes(_, _)
\* for wrong, correct in encoding_fixes.items(): text = text.replace(...)
ApplyFixes(s, k) ==
    IF k > Len(encoding_fixes) THEN s
    ELSE ApplyFixes(replace(s, encoding_fixes[k][1], encoding_fixes[k][2]), k + 1)

RECURSIVE SplitFrom(_, _)
SplitFrom(s, i) ==
    LET feeds == {j \in i..Len(s) : s[j] = LF}
    IN  IF feeds = {} THEN << Slice(s, i, Len(s) + 1) >>
        ELSE << Slice(s, i, SetMin(feeds)) >> \o SplitFrom(s, SetMin(feeds) + 1)

\* text.split('\n')
split_lines(s) == SplitFrom(s, 1)

RECURSIVE JoinFrom(_, _)
JoinFrom(lines, k) ==
    IF k > Len(lines) THEN <<>>
    ELSE IF k = Len(lines) THEN lines[k]
    ELSE lines[k] \o <<LF>> \o JoinFrom(lines, k + 1)

\* '\n'.join(lines)
join_lines(lines) == JoinFrom(lines, 1)

\* re.sub(r'\s+', ' ', line): each run of white space gives one space, at
\* the place of the run's first character
collapse_spaces(s) ==
    LET first == SelectSeq([i \in 1..Len(s) |-> i],
                     LAMBDA i : ~IsSpace(s[i]) \/ i = 1 \/ ~IsSpace(s[Max2(i - 1, 1)]))
    IN  [k \in 1..Len(first) |->
            IF IsSpace(s[first[k]]) THEN SPACE ELSE s[first[k]]]

\* lines of more than 2 characters, and empty lines
KeepLine(line) == Len(strip(line)) > 2 \/ strip(line) = <<>>

RECURSIVE DropBlankRuns(_, _, _)
\* the loop over lines with prev_empty
DropBlankRuns(lines, k, prev_empty) ==
    IF k > Len(lines) THEN <<>>
    ELSE IF Len(lines[k]) # 0
         THEN <<lines[k]>> \o DropBlankRuns(lines, k + 1, FALSE)
    ELSE IF ~prev_empty
         THEN <<lines[k]>> \o DropBlankRuns(lines, k + 1, TRUE)
    ELSE DropBlankRuns(lines, k + 1, TRUE)

\* [^\x20-\x7E\n\t඀-෿஀-௿] is deleted
AllowList == (32..126) \cup {LF, TAB} \cup SinhalaBlock \cup TamilBlock

\* [line.strip() for line in lines]
StripEach(ls) == [k \in 1..Len(ls) |-> strip(ls[k])]

\* [re.sub(r'\s+', ' ', line) for line in lines]
CollapseEach(ls) == [k \in 1..Len(ls) |-> collapse_spaces(ls[k])]

\* the six re.sub calls that delete scanner marks, page numbers and line
\* numbers, in the order of the code
remove_boilerplate(t) ==
    sub_empty("line_number",
      sub_empty("dash_number",
        sub_empty("n_of_m",
          sub_empty("page_slash",
            sub_empty("page_of",
              sub_empty("scanned", t))))))

\* lines: split, strip each, drop the short ones, collapse white space
clean_lines(t) ==
    CollapseEach(SelectSeq(StripEach(split_lines(t)), KeepLine))

\* re.sub of the allow-list class on the joined text
keep_printable(t) == SelectSeq(t, LAMBDA c : c \in AllowList)

clean_text(t) ==
    IF Falsy(t) THEN <<>>
    ELSE strip(keep_printable(join_lines(
             DropBlankRuns(clean_lines(remove_boilerplate(ApplyFixes(t, 1))),
                           1, FALSE))))

(***************************************************************************)
(* Inputs of clean_text: every text of at most MaxCleanLen characters of   *)
(* CleanAlphabet, and longer samples that the boilerplate patterns match.  *)
(***************************************************************************)
MaxCleanLen == 4

CleanAlphabet == {LOWER_A, DIGIT_1, SPACE, LF, HYPHEN, E_ACUTE}

RECURSIVE TextsUpTo(_)
TextsUpTo(n) ==
    IF n = 0 THEN {<<>>}
    ELSE TextsUpTo(n - 1)
           \cup {Append(t, c) : t \in {u \in TextsUpTo(n - 1) : Len(u) = n - 1},
                                c \in CleanAlphabet}

CleanSamples ==
    { \* "Page 1 of 11"
      <<80, 97, 103, 101, 32, 49, 32, 111, 102, 32, 49, 49>>,
      \* "page 1/1 a"
      <<112, 97, 103, 101, 32, 49, 47, 49, 32, 97>>,
      \* "aa 1 of 1 aa"
      <<97, 97, 32, 49, 32, 111, 102, 32, 49, 32, 97, 97>>,
      \* "Scanned by aScanner1 aa"
      <<83, 99, 97, 110, 110, 101, 100, 32, 98, 121, 32, 97, 83, 99, 97, 110,
        110, 101, 114, 49, 32, 97, 97>>,
      \* "scanned with camscanner"
      <<115, 99, 97, 110, 110, 101, 100, 32, 119, 105, 116, 104, 32, 99, 97,
        109, 115, 99, 97, 110, 110, 101, 114>>,
      \* "aa<U+00E2><U+20AC><U+2122>aa <U+00C3><U+00A9>"
      <<97, 97, 226, 8364, 8482, 97, 97, 32, 195, 169>>,
      \* "aaa\n\n<U+00E9><U+00E9><U+00E9>\naaa"
      <<97, 97, 97, LF, LF, E_ACUTE, E_ACUTE, E_ACUTE, LF, 97, 97, 97>>,
      \* "aaa\n\n\n\naaa"
      <<97, 97, 97, LF, LF, LF, LF, 97, 97, 97>> }

\* "aa" + middle + "aa": the sequence inside an ordinary word
InWords(middle) == <<LOWER_A, LOWER_A>> \o middle \o <<LOWER_A, LOWER_A>>

\* each mis-encoded sequence of the table inside a word
EncodingSamples == { InWords(encoding_fixes[k][1]) : k \in 1..Len(encoding_fixes) }

CleanInputs == {None} \cup TextsUpTo(MaxCleanLen) \cup CleanSamples \cup EncodingSamples

CleanInit ==
    /\ clean_in \in CleanInputs
    /\ cpc = "call"
    /\ clean_once = <<>>
    /\ clean_twice = <<>>

\* cleaned = clean_text(text)
Clean ==
    /\ cpc = "call"
    /\ clean_once' = clean_text(clean_in)
    /\ cpc' = "cleaned"
    /\ UNCHANGED <<clean_in, clean_twice>>

\* clean_text applied to its own result
CleanAgain ==
    /\ cpc = "cleaned"
    /\ clean_twice' = clean_text(clean_once)
    /\ cpc' = "recleaned"
    /\ UNCHANGED <<clean_in, clean_once>>

(***************************************************************************)
(* OCRService.extract_page_with_ocr and OCRService.process_pdf             *)
(***************************************************************************)
RECURSIVE IntToStr(_)
\* str(n) for n >= 0
IntToStr(n) ==
    IF n < 10 THEN <<48 + n>> ELSE IntToStr(n \div 10) \o <<48 + (n % 10)>>

\* a section numbered from 0, as enumerate without start=1 would
PageSection_zero_based(n, page_text) ==
    <<45, 45, 45, 32, 80, 97, 103, 101, 32>> \o IntToStr(n - 1)
        \o <<32, 45, 45, 45, LF>> \o page_text

\* f"--- Page {page_num} ---\n{page_text}"
PageSection(n, page_text) ==
    <<45, 45, 45, 32, 80, 97, 103, 101, 32>> \o IntToStr(n)
        \o <<32, 45, 45, 45, LF>> \o page_text

RECURSIVE JoinSections(_, _)
\* '\n\n'.join(all_text)
JoinSections(sections, k) ==
    IF k > Len(sections) THEN <<>>
    ELSE IF k = Len(sections) THEN sections[k]
    ELSE sections[k] \o <<LF, LF>> \o JoinSections(sections, k + 1)

\* len(s.split()): the maximal runs of characters that are no white space
word_count(s) ==
    Cardinality({i \in 1..Len(s) :
        ~IsSpace(s[i]) /\ (i = 1 \/ IsSpace(s[Max2(i - 1, 1)]))})

\* what the collaborators give for one page
\* "the court."
TEXT_ENGLISH == <<116, 104, 101, 32, 99, 111, 117, 114, 116, 46>>
TEXT_SINHALA == Rep(SINHALA_AYANNA, 11)
\* "5 - the court - 12"
TEXT_NUMBERED ==
    <<53, SPACE, HYPHEN, SPACE>> \o TEXT_ENGLISH \o <<SPACE, HYPHEN, SPACE, 49, 50>>
\* " order \n"
TEXT_OCR_RAW == <<32, 111, 114, 100, 101, 114, 32, LF>>

\* page.extract_text(): raises, or returns None or a text
FastOutcomes ==
    { [raises |-> TRUE, text |-> None] }
      \cup { [raises |-> FALSE, text |-> t] :
                t \in {None, TEXT_ENGLISH, TEXT_SINHALA, TEXT_NUMBERED} }

\* convert_from_path and pytesseract.image_to_string: no image, an exception,
\* or the engine's raw text
OcrOutcomes ==
    { [kind |-> "no_image", raw |-> <<>>], [kind |-> "raise", raw |-> <<>>],
      [kind |-> "text", raw |-> <<SPACE, LF>>], [kind |-> "text", raw |-> TEXT_OCR_RAW] }

NotCalled == [kind |-> "not_called", raw |-> <<>>]

extract_page_with_ocr(o) ==
    IF o.kind = "text" THEN strip(o.raw) ELSE <<>>

MaxPages == 3

\* max_pages: None, or an integer
PageLimits == { <<>> } \cup { <<k>> : k \in (-1)..(MaxPages + 1) }

\* len(pdf.pages[:k]) for a list of n pages
SliceLen(n, k) == IF k >= 0 THEN Min2(k, n) ELSE Max2(n + k, 0)

\* pages_to_process: `if max_pages:` skips None and 0
pages_to_process ==
    IF max_pages # <<>> /\ max_pages # <<0>>
    THEN SliceLen(num_pages, max_pages[1]) ELSE num_pages

metadata0 ==
    [total_pages |-> 0, successful_pages |-> 0, fast_path_pages |-> 0,
     ocr_fallback_pages |-> 0, failed_pages |-> 0, character_count |-> 0,
     word_count |-> 0]

PdfInit ==
    /\ tesseract \in {"found", "missing"}
    /\ num_pages \in 0..MaxPages
    /\ max_pages \in PageLimits
    /\ ppc = "new"
    /\ page_num = 0
    /\ metadata = metadata0
    /\ all_text = <<>>
    /\ page_log = <<>>
    /\ cleaned_text = <<>>

PdfIdle ==
    /\ tesseract = "found" /\ num_pages = 0 /\ max_pages = <<>> /\ ppc = "idle" /\ page_num = 0
    /\ metadata = metadata0 /\ all_text = <<>> /\ page_log = <<>>
    /\ cleaned_text = <<>>

\* OCRService(): pytesseract.get_tesseract_version() returns, and process_pdf
\* can be called on the service
Construct ==
    /\ ppc = "new"
    /\ tesseract = "found"
    /\ ppc' = "call"
    /\ UNCHANGED <<tesseract, num_pages, max_pages, page_num, metadata, all_text, page_log,
                   cleaned_text>>

\* OCRService(): get_tesseract_version() raises, __init__ raises RuntimeError
\* and there is no service
ConstructFails ==
    /\ ppc = "new"
    /\ tesseract = "missing"
    /\ ppc' = "RuntimeError"
    /\ UNCHANGED <<tesseract, num_pages, max_pages, page_num, metadata, all_text, page_log,
                   cleaned_text>>

\* pdfplumber.open(pdf_path) raises: the outer handler logs and re-raises
OpenFails ==
    /\ ppc = "call"
    /\ ppc' = "raised"
    /\ UNCHANGED <<tesseract, num_pages, max_pages, page_num, metadata, all_text, page_log,
                   cleaned_text>>

\* the document opens: metadata["total_pages"] = len(pdf.pages)
Open ==
    /\ ppc = "call"
    /\ metadata' = [metadata EXCEPT !.total_pages = num_pages]
    /\ ppc' = "loop"
    /\ UNCHANGED <<tesseract, num_pages, max_pages, page_num, all_text, page_log, cleaned_text>>

\* where the page's text goes and what is counted, by the branch taken
KeepPage(n, page_text, counter, fast, ocr, strategy) ==
    /\ all_text' = Append(all_text, PageSection(n, page_text))
    /\ metadata' = [metadata EXCEPT !.successful_pages = @ + 1, ![counter] = @ + 1]
    /\ page_log' = Append(page_log, [fast |-> fast, ocr |-> ocr, strategy |-> strategy])

FailPage(fast, ocr) ==
    /\ all_text' = all_text
    /\ metadata' = [metadata EXCEPT !.failed_pages = @ + 1]
    /\ page_log' = Append(page_log, [fast |-> fast, ocr |-> ocr, strategy |-> "FAILED"])

\* a loop body whose handler drops the exception of the fast extraction
\* without counting the page
ProcessPage_error_dropped ==
    /\ ppc = "loop"
    /\ page_num < pages_to_process
    /\ \E fast \in FastOutcomes, ocr \in OcrOutcomes :
         IF fast.raises
         THEN /\ UNCHANGED <<all_text, metadata>>
              /\ page_log' = Append(page_log,
                    [fast |-> fast, ocr |-> NotCalled, strategy |-> "FAILED"])
         ELSE IF ~Falsy(fast.text) /\ ~needs_ocr(fast.text)
         THEN KeepPage(page_num + 1, fast.text, "fast_path_pages", fast, NotCalled, "FAST")
         ELSE IF extract_page_with_ocr(ocr) # <<>>
         THEN KeepPage(page_num + 1, extract_page_with_ocr(ocr), "ocr_fallback_pages",
                       fast, ocr, "OCR")
         ELSE FailPage(fast, ocr)
    /\ page_num' = page_num + 1
    /\ UNCHANGED <<tesseract, num_pages, max_pages, ppc, cleaned_text>>

\* a loop body that takes every non-empty fast text without asking needs_ocr
ProcessPage_unclassified ==
    /\ ppc = "loop"
    /\ page_num < pages_to_process
    /\ \E fast \in FastOutcomes, ocr \in OcrOutcomes :
         IF fast.raises
         THEN FailPage(fast, NotCalled)
         ELSE IF ~Falsy(fast.text)
         THEN KeepPage(page_num + 1, fast.text, "fast_path_pages", fast, NotCalled, "FAST")
         ELSE IF extract_page_with_ocr(ocr) # <<>>
         THEN KeepPage(page_num + 1, extract_page_with_ocr(ocr), "ocr_fallback_pages",
                       fast, ocr, "OCR")
         ELSE FailPage(fast, ocr)
    /\ page_num' = page_num + 1
    /\ UNCHANGED <<tesseract, num_pages, max_pages, ppc, cleaned_text>>

\* a loop body without the handler of the page: the exception of the fast
\* extraction reaches the outer handler, which re-raises
ProcessPage_unhandled ==
    /\ ppc = "loop"
    /\ page_num < pages_to_process
    /\ \E fast \in FastOutcomes, ocr \in OcrOutcomes :
         IF fast.raises
         THEN /\ ppc' = "raised"
              /\ UNCHANGED <<all_text, metadata, page_log>>
         ELSE /\ ppc' = ppc
              /\ IF ~Falsy(fast.text) /\ ~needs_ocr(fast.text)
                 THEN KeepPage(page_num + 1, fast.text, "fast_path_pages", fast,
                               NotCalled, "FAST")
                 ELSE IF extract_page_with_ocr(ocr) # <<>>
                 THEN KeepPage(page_num + 1, extract_page_with_ocr(ocr),
                               "ocr_fallback_pages", fast, ocr, "OCR")
                 ELSE FailPage(fast, ocr)
    /\ page_num' = page_num + 1
    /\ UNCHANGED <<tesseract, num_pages, max_pages, cleaned_text>>

\* a loop body whose OCR branch forgets successful_pages
ProcessPage_ocr_uncounted ==
    /\ ppc = "loop"
    /\ page_num < pages_to_process
    /\ \E fast \in FastOutcomes, ocr \in OcrOutcomes :
         IF fast.raises
         THEN FailPage(fast, NotCalled)
         ELSE IF ~Falsy(fast.text) /\ ~needs_ocr(fast.text)
         THEN KeepPage(page_num + 1, fast.text, "fast_path_pages", fast, NotCalled, "FAST")
         ELSE IF extract_page_with_ocr(ocr) # <<>>
         THEN /\ all_text' = Append(all_text,
                                    PageSection(page_num + 1, extract_page_with_ocr(ocr)))
              /\ metadata' = [metadata EXCEPT !.ocr_fallback_pages = @ + 1]
              /\ page_log' = Append(page_log, [fast |-> fast, ocr |-> ocr, strategy |-> "OCR"])
         ELSE FailPage(fast, ocr)
    /\ page_num' = page_num + 1
    /\ UNCHANGED <<tesseract, num_pages, max_pages, ppc, cleaned_text>>

\* one pass of the loop body, for page page_num + 1
ProcessPage ==
    /\ ppc = "loop"
    /\ page_num < pages_to_process
    /\ \E fast \in FastOutcomes, ocr \in OcrOutcomes :
         LET n == page_num + 1
             page_text == fast.text
             ocr_text == extract_page_with_ocr(ocr)
         IN  IF fast.raises
             THEN /\ metadata' = [metadata EXCEPT !.failed_pages = @ + 1]
                  /\ all_text' = all_text
                  /\ page_log' = Append(page_log,
                        [fast |-> fast, ocr |-> NotCalled, strategy |-> "FAILED"])
             ELSE IF ~Falsy(page_text) /\ ~needs_ocr(page_text)
             THEN /\ all_text' = Append(all_text, PageSection(n, page_text))
                  /\ metadata' = [metadata EXCEPT !.successful_pages = @ + 1,
                                                  !.fast_path_pages = @ + 1]
                  /\ page_log' = Append(page_log,
                        [fast |-> fast, ocr |-> NotCalled, strategy |-> "FAST"])
             ELSE IF ocr_text # <<>>
             THEN /\ all_text' = Append(all_text, PageSection(n, ocr_text))
                  /\ metadata' = [metadata EXCEPT !.successful_pages = @ + 1,
                                                  !.ocr_fallback_pages = @ + 1]
                  /\ page_log' = Append(page_log,
                        [fast |-> fast, ocr |-> ocr, strategy |-> "OCR"])
             ELSE /\ all_text' = all_text
                  /\ metadata' = [metadata EXCEPT !.failed_pages = @ + 1]
                  /\ page_log' = Append(page_log,
                        [fast |-> fast, ocr |-> ocr, strategy |-> "FAILED"])
    /\ page_num' = page_num + 1
    /\ UNCHANGED <<tesseract, num_pages, max_pages, ppc, cleaned_text>>

\* return cleaned_text, metadata with the two counts of the cleaned text
ReturnCleaned(cleaned) ==
    /\ cleaned_text' = cleaned
    /\ metadata' = [metadata EXCEPT !.character_count = Len(cleaned),
                                    !.word_count = word_count(cleaned)]

\* after the loop: join, clean, count, return (cleaned_text, metadata)
Finish ==
    /\ ppc = "loop"
    /\ page_num = pages_to_process
    /\ ReturnCleaned(clean_text(JoinSections(all_text, 1)))
    /\ ppc' = "returned"
    /\ UNCHANGED <<tesseract, num_pages, max_pages, page_num, all_text, page_log>>

(***************************************************************************)
(* json.loads, as ParserService calls it: the default decoder, strict.     *)
(* A decoded value is a tagged tuple: <<"obj", f>> with f the function     *)
(* from the keys to the values, <<"arr", items>>, <<"str", characters>>,   *)
(* <<"int", n>>, <<"float", m, e>> for m * 10^e, or <<"lit", name>>.       *)
(* A decoding step gives <<TRUE, value, index after it>> or NoValue.       *)
(***************************************************************************)
CR == 13
PLUS == 43
COMMA == 44
DOT == 46
DIGIT_0 == 48
COLON == 58
LBRACKET == 91
BACKSLASH == 92
RBRACKET == 93
BACKTICK == 96
LBRACE == 123
RBRACE == 125
DEL == 127
BOM == 65279

NoValue == <<FALSE, <<>>, 0>>
Parsed(v, end) == <<TRUE, v, end>>

\* WHITESPACE of json.decoder
JsonWs == {SPACE, TAB, LF, CR}

RECURSIVE SkipJsonWs(_, _)
SkipJsonWs(s, i) ==
    IF i <= Len(s) /\ s[i] \in JsonWs THEN SkipJsonWs(s, i + 1) ELSE i

\* the first index at or after i whose character is in set, Len(s) + 1 if none
FirstIn(s, i, set) == SetMin({q \in i..Len(s) : s[q] \in set} \cup {Len(s) + 1})

IsAsciiDigit(c) == c \in AsciiDigits

RECURSIVE SkipAsciiDigits(_, _)
SkipAsciiDigits(s, i) ==
    IF i <= Len(s) /\ IsAsciiDigit(s[i]) THEN SkipAsciiDigits(s, i + 1) ELSE i

RECURSIVE DigitsValue(_, _, _)
\* the number the decimal digits s[i..j-1] write
DigitsValue(s, i, j) ==
    IF j <= i THEN 0 ELSE 10 * DigitsValue(s, i, j - 1) + (s[j - 1] - DIGIT_0)

RECURSIVE Normalize(_, _)
\* m * 10^e with the mantissa free of trailing zeros
Normalize(m, e) ==
    IF m = 0 THEN <<"float", 0, 0>>
    ELSE IF m % 10 = 0 THEN Normalize(m \div 10, e + 1)
    ELSE <<"float", m, e>>

\* the escapes of one character
SimpleEscapes ==
    (DQUOTE :> DQUOTE) @@ (BACKSLASH :> BACKSLASH) @@ (SLASH :> SLASH)
      @@ (98 :> 8) @@ (102 :> 12) @@ (110 :> LF) @@ (114 :> CR) @@ (116 :> TAB)

HexDigits == AsciiDigits \cup (97..102) \cup (65..70)
HexValue(c) ==
    IF c \in AsciiDigits THEN c - DIGIT_0
    ELSE IF c \in 97..102 THEN c - 87 ELSE c - 55

\* s[i..i+3] as a hexadecimal number, -1 when they are not four hex digits
Hex4(s, i) ==
    IF i + 3 <= Len(s) /\ \A k \in i..(i + 3) : s[k] \in HexDigits
    THEN 4096 * HexValue(s[i]) + 256 * HexValue(s[i + 1])
           + 16 * HexValue(s[i + 2]) + HexValue(s[i + 3])
    ELSE -1

\* a string stops at a quotation mark, a backslash or a control character
StringStops == {DQUOTE, BACKSLASH} \cup (0..31)

RECURSIVE ScanChunks(_, _, _)
RECURSIVE ChunkEnd(_, _, _, _)
RECURSIVE UnicodeEscape(_, _, _, _)
\* \uXXXX at t (the backslash), with a low surrogate after a high one joined
UnicodeEscape(s, t, acc, uni) ==
    IF uni < 0 THEN NoValue
    ELSE IF uni \in 55296..56319 /\ t + 7 <= Len(s) /\ s[t + 6] = BACKSLASH
            /\ s[t + 7] = 117 /\ Hex4(s, t + 8) \in 56320..57343
    THEN ScanChunks(s, t + 12,
             Append(acc, 65536 + (uni - 55296) * 1024 + (Hex4(s, t + 8) - 56320)))
    ELSE ScanChunks(s, t + 6, Append(acc, uni))

\* the chunk s[i..t-1] and the terminator at t
ChunkEnd(s, i, acc, t) ==
    IF t > Len(s) THEN NoValue
    ELSE IF s[t] = DQUOTE THEN Parsed(<<"str", acc \o Slice(s, i, t)>>, t + 1)
    ELSE IF s[t] # BACKSLASH THEN NoValue
    ELSE IF t + 1 > Len(s) THEN NoValue
    ELSE IF s[t + 1] \in DOMAIN SimpleEscapes
    THEN ScanChunks(s, t + 2, Append(acc \o Slice(s, i, t), SimpleEscapes[s[t + 1]]))
    ELSE IF s[t + 1] = 117
    THEN UnicodeEscape(s, t, acc \o Slice(s, i, t), Hex4(s, t + 2))
    ELSE NoValue

ScanChunks(s, i, acc) == ChunkEnd(s, i, acc, FirstIn(s, i, StringStops))

\* scanstring(s, i) with i the index after the opening quotation mark
scanstring(s, i) == ScanChunks(s, i, <<>>)

\* the end of the integer part at i: 0 alone, or a digit 1-9 and more digits
IntEnd(s, i) ==
    IF i > Len(s) THEN 0
    ELSE IF s[i] = DIGIT_0 THEN i + 1
    ELSE IF IsAsciiDigit(s[i]) THEN SkipAsciiDigits(s, i + 1)
    ELSE 0

\* the end of a fraction that starts at i, i when there is none
FracEnd(s, i) ==
    IF i + 1 <= Len(s) /\ s[i] = DOT /\ IsAsciiDigit(s[i + 1])
    THEN SkipAsciiDigits(s, i + 1) ELSE i

\* where the digits of an exponent start, given the index after e or E
ExpDigits(s, i) ==
    IF i + 1 <= Len(s) /\ s[i] \in {PLUS, HYPHEN} THEN i + 1 ELSE i

\* the end of an exponent that starts at i, i when there is none
ExpEnd(s, i) ==
    IF i + 1 <= Len(s) /\ s[i] \in {101, 69}
          /\ SkipAsciiDigits(s, ExpDigits(s, i + 1)) > ExpDigits(s, i + 1)
    THEN SkipAsciiDigits(s, ExpDigits(s, i + 1)) ELSE i

\* the value of the exponent s[x..end-1], x the index of e or E
ExpValue(s, x, end) ==
    IF end = x THEN 0
    ELSE IF s[x + 1] = HYPHEN THEN 0 - DigitsValue(s, x + 2, end)
    ELSE DigitsValue(s, ExpDigits(s, x + 1), end)

\* int(numstr) or float(numstr): a is the first digit, b the end of the
\* integer part, c the end of the fraction, d the end of the exponent
NumberValue(s, sign, a, b, c, d) ==
    IF d = b THEN <<"int", sign * DigitsValue(s, a, b)>>
    ELSE Normalize(sign * (DigitsValue(s, a, b) * (10 ^ (Max2(c - b - 1, 0)))
                             + DigitsValue(s, b + 1, c)),
                   ExpValue(s, c, d) - Max2(c - b - 1, 0))

NumberFrom(s, sign, a, b) ==
    IF b = 0 THEN NoValue
    ELSE Parsed(NumberValue(s, sign, a, b, FracEnd(s, b), ExpEnd(s, FracEnd(s, b))),
                ExpEnd(s, FracEnd(s, b)))

\* the number at i
match_number(s, i) ==
    IF s[i] = HYPHEN THEN NumberFrom(s, -1, i + 1, IntEnd(s, i + 1))
    ELSE NumberFrom(s, 1, i, IntEnd(s, i))

LitNull == <<110, 117, 108, 108>>
LitTrue == <<116, 114, 117, 101>>
LitFalse == <<102, 97, 108, 115, 101>>
LitNaN == <<78, 97, 78>>
LitInfinity == <<73, 110, 102, 105, 110, 105, 116, 121>>

\* the empty dict
EmptyObject == [k \in {} |-> 0]

RECURSIVE scan_once(_, _)
RECURSIVE ObjectMembers(_, _, _)
RECURSIVE AfterKey(_, _, _)
RECURSIVE AfterColon(_, _, _, _)
RECURSIVE AfterValue(_, _, _, _)
RECURSIVE AfterMember(_, _, _)
RECURSIVE ArrayItems(_, _, _)
RECURSIVE AfterItem(_, _, _)
RECURSIVE AfterItemWs(_, _, _)

\* after a member: the closing brace, or a comma and the next member
AfterMember(s, d, acc) ==
    IF d > Len(s) THEN NoValue
    ELSE IF s[d] = RBRACE THEN Parsed(<<"obj", acc>>, d + 1)
    ELSE IF s[d] # COMMA THEN NoValue
    ELSE ObjectMembers(s, SkipJsonWs(s, d + 1), acc)

\* a later pair with the same key replaces the earlier one
AfterValue(s, key, val, acc) ==
    IF ~val[1] THEN NoValue
    ELSE AfterMember(s, SkipJsonWs(s, val[3]), (key[2][2] :> val[2]) @@ acc)

AfterColon(s, key, c, acc) ==
    IF c > Len(s) THEN NoValue
    ELSE IF s[c] # COLON THEN NoValue
    ELSE AfterValue(s, key, scan_once(s, SkipJsonWs(s, c + 1)), acc)

AfterKey(s, key, acc) ==
    IF ~key[1] THEN NoValue ELSE AfterColon(s, key, SkipJsonWs(s, key[3]), acc)

\* a member starts with the quotation mark of its key
ObjectMembers(s, j, acc) ==
    IF j > Len(s) THEN NoValue
    ELSE IF s[j] # DQUOTE THEN NoValue
    ELSE AfterKey(s, scanstring(s, j + 1), acc)

\* JSONObject: j is the first index after the brace that holds no white space
JSONObject(s, j) ==
    IF j > Len(s) THEN NoValue
    ELSE IF s[j] = RBRACE THEN Parsed(<<"obj", EmptyObject>>, j + 1)
    ELSE ObjectMembers(s, j, EmptyObject)

AfterItemWs(s, d, acc) ==
    IF d > Len(s) THEN NoValue
    ELSE IF s[d] = RBRACKET THEN Parsed(<<"arr", acc>>, d + 1)
    ELSE IF s[d] # COMMA THEN NoValue
    ELSE ArrayItems(s, SkipJsonWs(s, d + 1), acc)

AfterItem(s, val, acc) ==
    IF ~val[1] THEN NoValue
    ELSE AfterItemWs(s, SkipJsonWs(s, val[3]), Append(acc, val[2]))

ArrayItems(s, j, acc) == AfterItem(s, scan_once(s, j), acc)

\* JSONArray: j is the first index after the bracket that holds no white space
JSONArray(s, j) ==
    IF j > Len(s) THEN NoValue
    ELSE IF s[j] = RBRACKET THEN Parsed(<<"arr", <<>>>>, j + 1)
    ELSE ArrayItems(s, j, <<>>)

\* scan_once(s, i): the value that starts at i
scan_once(s, i) ==
    IF i > Len(s) THEN NoValue
    ELSE IF s[i] = DQUOTE THEN scanstring(s, i + 1)
    ELSE IF s[i] = LBRACE THEN JSONObject(s, SkipJsonWs(s, i + 1))
    ELSE IF s[i] = LBRACKET THEN JSONArray(s, SkipJsonWs(s, i + 1))
    ELSE IF StartsWith(s, i, LitNull) THEN Parsed(<<"lit", "null">>, i + 4)
    ELSE IF StartsWith(s, i, LitTrue) THEN Parsed(<<"lit", "true">>, i + 4)
    ELSE IF StartsWith(s, i, LitFalse) THEN Parsed(<<"lit", "false">>, i + 5)
    ELSE IF StartsWith(s, i, LitNaN) THEN Parsed(<<"lit", "NaN">>, i + 3)
    ELSE IF StartsWith(s, i, LitInfinity) THEN Parsed(<<"lit", "Infinity">>, i + 8)
    ELSE IF s[i] = HYPHEN /\ StartsWith(s, i + 1, LitInfinity)
    THEN Parsed(<<"lit", "-Infinity">>, i + 9)
    ELSE IF s[i] = HYPHEN \/ IsAsciiDigit(s[i]) THEN match_number(s, i)
    ELSE NoValue

\* after the value only white space may follow
LoadsEnd(s, val) ==
    IF ~val[1] THEN NoValue
    ELSE IF SkipJsonWs(s, val[3]) # Len(s) + 1 THEN NoValue
    ELSE val

\* json.loads(s): NoValue stands for JSONDecodeError
json_loads(s) == LoadsEnd(s, scan_once(s, SkipJsonWs(s, 1)))

(***************************************************************************)
(* ParserService.clean_llm_json: locating the candidate                    *)
(***************************************************************************)
LitFence == <<BACKTICK, BACKTICK, BACKTICK>>
LitJson == <<106, 115, 111, 110>>
LitMetadata == <<109, 101, 116, 97, 100, 97, 116, 97>>
LitSections == <<115, 101, 99, 116, 105, 111, 110, 115>>

\* c in s
Contains(s, c) == \E i \in 1..Len(s) : s[i] = c

\* s.count(c)
Count(s, c) == Cardinality({i \in 1..Len(s) : s[i] = c})

\* the first start of lit at or after i, Len(s) + 1 if none
FindLit(s, lit, i) ==
    SetMin({q \in i..Len(s) : StartsWith(s, q, lit)} \cup {Len(s) + 1})

\* (?:json)? takes the tag when it is there
AfterTag(s, i) == IF StartsWith(s, i, LitJson) THEN i + 4 ELSE i

RECURSIVE FenceBlocksFrom(_, _)
RECURSIVE FenceOpen(_, _)
RECURSIVE FenceBody(_, _, _)
\* p is the index after the opening fence, its tag and all white space, f
\* the next fence at or after p: (.*?)\s* leaves the text between them
\* without its trailing white space.  With no fence after p no match starts
\* at this fence or at a later one.
FenceBody(s, p, f) ==
    IF f > Len(s) THEN <<>>
    ELSE <<Slice(s, p, SkipSpaceBack(s, f - 1) + 1)>> \o FenceBlocksFrom(s, f + 3)

FenceOpen(s, o) ==
    IF o > Len(s) THEN <<>>
    ELSE FenceBody(s, SkipSpace(s, AfterTag(s, o + 3)),
                   FindLit(s, LitFence, SkipSpace(s, AfterTag(s, o + 3))))

FenceBlocksFrom(s, i) == FenceOpen(s, FindLit(s, LitFence, i))

\* re.findall(r'```(?:json)?\s*(.*?)\s*```', llm_output, re.DOTALL)
code_blocks(s) == FenceBlocksFrom(s, 1)

\* the blocks that hold a brace or a bracket
JsonBlocks(blocks) ==
    {k \in 1..Len(blocks) :
        Contains(blocks[k], LBRACE) \/ Contains(blocks[k], LBRACKET)}

\* llm_output after the loop over the code blocks
PickBlock(s, blocks) ==
    IF JsonBlocks(blocks) = {} THEN s ELSE blocks[SetMin(JsonBlocks(blocks))]

RECURSIVE PatternBody(_, _, _, _)
RECURSIVE BodyAt(_, _, _, _)
RECURSIVE InnerAt(_, _, _, _)
\* q is the first brace after an inner opening brace: the inner group needs
\* it to be the closing one
InnerAt(s, q, open, close) ==
    IF q > Len(s) THEN 0
    ELSE IF s[q] = open THEN 0
    ELSE PatternBody(s, q + 1, open, close)

\* b is the first brace at or after the position reached: the closing one
\* ends the match, an opening one must start an inner group
BodyAt(s, b, open, close) ==
    IF b > Len(s) THEN 0
    ELSE IF s[b] = close THEN b + 1
    ELSE InnerAt(s, FirstIn(s, b + 1, {open, close}), open, close)

PatternBody(s, p, open, close) == BodyAt(s, FirstIn(s, p, {open, close}), open, close)

\* the index after the match of \{(?:[^{}]|(?:\{[^{}]*\}))*\} that starts at
\* i (of the same pattern with brackets), 0 when there is none
PatternEnd(s, i, open, close) ==
    IF s[i] = open THEN PatternBody(s, i + 1, open, close) ELSE 0

RECURSIVE FindIter(_, _, _, _)
RECURSIVE IterAt(_, _, _, _)
IterAt(s, q, open, close) ==
    IF q > Len(s) THEN <<>>
    ELSE <<Slice(s, q, PatternEnd(s, q, open, close))>>
           \o FindIter(s, PatternEnd(s, q, open, close), open, close)

\* [m.group(0) for m in re.finditer(pattern, llm_output, re.DOTALL)] from i on
FindIter(s, i, open, close) ==
    IterAt(s, SetMin({q \in i..Len(s) : PatternEnd(s, q, open, close) > 0}
                       \cup {Len(s) + 1}),
           open, close)

\* the matches that count as many opening as closing characters
Balanced(cands, open, close) ==
    {k \in 1..Len(cands) : Count(cands[k], open) = Count(cands[k], close)}

\* the first balanced match of a sort by length without reverse=True
FirstBalanced_shortest(cands, ok) ==
    IF ok = {} THEN None
    ELSE cands[CHOOSE k \in ok : \A j \in ok :
                   \/ Len(cands[k]) < Len(cands[j])
                   \/ (Len(cands[k]) = Len(cands[j]) /\ k <= j)]

\* the first balanced match after the stable sort by length, longest first
FirstBalanced(cands, ok) ==
    IF ok = {} THEN None
    ELSE cands[CHOOSE k \in ok : \A j \in ok :
                   \/ Len(cands[k]) > Len(cands[j])
                   \/ (Len(cands[k]) = Len(cands[j]) /\ k <= j)]

\* the candidate one of json_patterns gives
PatternCandidate(s, open, close) ==
    FirstBalanced(FindIter(s, 1, open, close),
                  Balanced(FindIter(s, 1, open, close), open, close))

\* s.rfind(c), 0 when c is not in s
rfind(s, c) == SetMax({q \in 1..Len(s) : s[q] = c} \cup {0})

\* Strategy 2: from the first opening to the last closing character
SliceCandidate(s, open, close) ==
    IF FirstIn(s, 1, {open}) <= Len(s) /\ rfind(s, close) >= 1
          /\ FirstIn(s, 1, {open}) < rfind(s, close)
    THEN Slice(s, FirstIn(s, 1, {open}), rfind(s, close) + 1)
    ELSE None

\* how the candidate was found: the message the code prints
LocateStrategy(s) ==
    IF PatternCandidate(s, LBRACE, RBRACE) # None THEN "Found balanced JSON object"
    ELSE IF PatternCandidate(s, LBRACKET, RBRACKET) # None
    THEN "Found balanced JSON array"
    ELSE IF SliceCandidate(s, LBRACE, RBRACE) # None
    THEN "Extracted JSON using first/last brace positions"
    ELSE IF SliceCandidate(s, LBRACKET, RBRACKET) # None
    THEN "Extracted JSON array using first/last bracket positions"
    ELSE "No JSON structure found in output"

\* extracted_json after Step 2, None when nothing was found
locate_candidate(s) ==
    IF PatternCandidate(s, LBRACE, RBRACE) # None
    THEN PatternCandidate(s, LBRACE, RBRACE)
    ELSE IF PatternCandidate(s, LBRACKET, RBRACKET) # None
    THEN PatternCandidate(s, LBRACKET, RBRACKET)
    ELSE IF SliceCandidate(s, LBRACE, RBRACE) # None
    THEN SliceCandidate(s, LBRACE, RBRACE)
    ELSE SliceCandidate(s, LBRACKET, RBRACKET)

(***************************************************************************)
(* ParserService._fix_common_json_issues                                   *)
(***************************************************************************)
\* k lies in a match of ,\s*closer before the closing character itself
InTrailingComma(s, k, closer) ==
    \E i \in 1..k :
        /\ s[i] = COMMA
        /\ SkipSpace(s, i + 1) <= Len(s)
        /\ s[SkipSpace(s, i + 1)] = closer
        /\ k < SkipSpace(s, i + 1)

\* the characters of s at the indices given
AtIndices(s, keep) == [n \in 1..Len(keep) |-> s[keep[n]]]

\* re.sub(r',\s*}', '}', s), and the same with ]
drop_trailing_commas(s, closer) ==
    AtIndices(s, SelectSeq([k \in 1..Len(s) |-> k],
                           LAMBDA k : ~InTrailingComma(s, k, closer)))

\* [\x00-\x08\x0B-\x0C\x0E-\x1F\x7F]
ControlChars == (0..8) \cup {11, 12} \cup (14..31) \cup {DEL}

drop_control_chars(s) == SelectSeq(s, LAMBDA c : c \notin ControlChars)

\* single quotes become double quotes when the text holds no double quote
swap_quotes(s) ==
    IF ~Contains(s, DQUOTE) /\ Contains(s, SQUOTE)
    THEN [k \in 1..Len(s) |-> IF s[k] = SQUOTE THEN DQUOTE ELSE s[k]]
    ELSE s

\* json_str.replace('\ufeff', '')
drop_bom(s) == SelectSeq(s, LAMBDA c : c # BOM)

fix_common_json_issues(s) ==
    drop_bom(swap_quotes(drop_control_chars(
        drop_trailing_commas(drop_trailing_commas(s, RBRACE), RBRACKET))))

(***************************************************************************)
(* ParserService._extract_partial_json                                     *)
(***************************************************************************)
Quoted(k) == <<DQUOTE>> \o k \o <<DQUOTE>>

\* the group is the opening character, one or more characters that are not
\* the closing one, and the first closing character
ProbeClose(s, o, r) ==
    IF r > Len(s) \/ r = o + 1 THEN None ELSE Slice(s, o, r + 1)

ProbeOpen(s, o, open, close) ==
    IF o > Len(s) THEN None
    ELSE IF s[o] # open THEN None
    ELSE ProbeClose(s, o, FirstIn(s, o + 1, {close}))

ProbeColon(s, c, open, close) ==
    IF c > Len(s) THEN None
    ELSE IF s[c] # COLON THEN None
    ELSE ProbeOpen(s, SkipSpace(s, c + 1), open, close)

\* group(1) of the match of "key"\s*:\s*(open[^close]+close) that starts at
\* i, None when there is none
ProbeAt(s, i, key, open, close) ==
    IF ~StartsWith(s, i, Quoted(key)) THEN None
    ELSE ProbeColon(s, SkipSpace(s, i + Len(key) + 2), open, close)

\* the leftmost start of a match, Len(s) + 1 when there is none
ProbeStart(s, key, open, close) ==
    SetMin({i \in 1..Len(s) : ProbeAt(s, i, key, open, close) # None}
             \cup {Len(s) + 1})

\* re.search(...).group(1), None when the search gives None
probe(s, key, open, close) ==
    IF ProbeStart(s, key, open, close) > Len(s) THEN None
    ELSE ProbeAt(s, ProbeStart(s, key, open, close), key, open, close)

\* json.loads of the group of a probe that matched
ProbeValue(group) == IF group = None THEN NoValue ELSE json_loads(group)

metadata_probe(s) == ProbeValue(probe(s, LitMetadata, LBRACE, RBRACE))
sections_probe(s) == ProbeValue(probe(s, LitSections, LBRACKET, RBRACKET))

\* the first probe that matches and loads gives the result, alone
extract_partial_json(s) ==
    IF metadata_probe(s)[1] THEN <<"obj", LitMetadata :> metadata_probe(s)[2]>>
    ELSE IF sections_probe(s)[1] THEN <<"obj", LitSections :> sections_probe(s)[2]>>
    ELSE None

(***************************************************************************)
(* Model outputs given to clean_llm_json: JSON documents nested up to      *)
(* MaxDepth, the case documents with the keys metadata and sections, each  *)
(* pure, fenced or in prose, each with one trailing comma, and samples.    *)
(***************************************************************************)
MaxDepth == 3

KeyA == <<LOWER_A>>

\* 1, "}" and ",]"
Scalars == { <<DIGIT_1>>, Quoted(<<RBRACE>>), Quoted(<<COMMA, RBRACKET>>) }

Obj1(k, v) == <<LBRACE>> \o Quoted(k) \o <<COLON>> \o v \o <<RBRACE>>
Obj2(k, v, l, w) ==
    <<LBRACE>> \o Quoted(k) \o <<COLON>> \o v \o <<COMMA>>
        \o Quoted(l) \o <<COLON>> \o w \o <<RBRACE>>
Arr1(v) == <<LBRACKET>> \o v \o <<RBRACKET>>

RECURSIVE ValuesUpTo(_)
ValuesUpTo(d) ==
    IF d = 0 THEN Scalars
    ELSE ValuesUpTo(d - 1)
           \cup { <<LBRACE, RBRACE>>, <<LBRACKET, RBRACKET>> }
           \cup { Obj1(KeyA, v) : v \in ValuesUpTo(d - 1) }
           \cup { Arr1(v) : v \in ValuesUpTo(d - 1) }

\* the documents: every value that is an object or an array
NestedDocs == ValuesUpTo(MaxDepth) \ Scalars

MetaObjects ==
    { Obj1(KeyA, <<DIGIT_1>>), <<LBRACE, RBRACE>>, Obj1(KeyA, Quoted(<<RBRACE>>)) }
SectionArrays ==
    { Arr1(<<DIGIT_1>>), <<LBRACKET, RBRACKET>>, Arr1(Obj1(KeyA, <<DIGIT_1>>)) }

\* {"metadata":M,"sections":S} and {"sections":S}
CaseDocs ==
    { Obj2(LitMetadata, m, LitSections, s) : m \in MetaObjects, s \in SectionArrays }
      \cup { Obj1(LitSections, s) : s \in SectionArrays }

\* a document cut short: ,x before its last character
Broken(t) == Slice(t, 1, Len(t)) \o <<COMMA, 120>> \o <<t[Len(t)]>>

BrokenDocs ==
    { Broken(t) : t \in CaseDocs }
      \cup { Broken(Obj1(KeyA, <<DIGIT_1>>)), Broken(Arr1(<<DIGIT_1>>)) }

\* ```json<LF>J<LF>```
Fenced(j) == LitFence \o LitJson \o <<LF>> \o j \o <<LF>> \o LitFence
\* ```J```
FencedPlain(j) == LitFence \o j \o LitFence
\* <SP>```<SP>J<SP>```<LF>
FencedPadded(j) == <<SPACE>> \o LitFence \o <<SPACE>> \o j \o <<SPACE>> \o LitFence \o <<LF>>
\* Hi: J ok
InProse(j) == <<72, 105, 58, SPACE>> \o j \o <<SPACE, 111, 107>>

\* t with a comma and pad put in before its character k
InsertComma(t, k, pad) == Slice(t, 1, k) \o <<COMMA>> \o pad \o Slice(t, k, Len(t) + 1)

CommaPads == { <<>>, <<SPACE>> }

TrailingCommas(t) ==
    { InsertComma(t, k, pad) : k \in {q \in 1..Len(t) : t[q] \in {RBRACE, RBRACKET}},
                               pad \in CommaPads }

JsonSamples ==
    {
      \* the empty output
      <<>>,
      \* white space only
      <<32, 10>>,
      \* hello
      <<104, 101, 108, 108, 111>>,
      \* {"a":1
      <<123, 34, 97, 34, 58, 49>>,
      \* ]1[
      <<93, 49, 91>>,
      \* {'a':1}
      <<123, 39, 97, 39, 58, 49, 125>>,
      \* {"a":<U+0001> 1}
      <<123, 34, 97, 34, 58, 1, 32, 49, 125>>,
      \* {<U+FEFF>"a":1}
      <<123, 65279, 34, 97, 34, 58, 49, 125>>,
      \* {"a":"\n\u0041"}
      <<123, 34, 97, 34, 58, 34, 92, 110, 92, 117, 48, 48, 52, 49, 34, 125>>,
      \* {"a":true,"a":null}
      <<123, 34, 97, 34, 58, 116, 114, 117, 101, 44, 34, 97, 34, 58, 110,
        117, 108, 108, 125>>,
      \* [-1.50e1,false]
      <<91, 45, 49, 46, 53, 48, 101, 49, 44, 102, 97, 108, 115, 101, 93>>,
      \* ```text``` {"a":1}
      <<96, 96, 96, 116, 101, 120, 116, 96, 96, 96, 32, 123, 34, 97, 34, 58,
        49, 125>>,
      \* ```[1]``` ```{}```
      <<96, 96, 96, 91, 49, 93, 96, 96, 96, 32, 96, 96, 96, 123, 125, 96,
        96, 96>>,
      \* Hi {"a":1} or {"a":[1]}
      <<72, 105, 32, 123, 34, 97, 34, 58, 49, 125, 32, 111, 114, 32, 123,
        34, 97, 34, 58, 91, 49, 93, 125>>,
      \* [1] {"a":1}
      <<91, 49, 93, 32, 123, 34, 97, 34, 58, 49, 125>>,
      \* [{"a":1},{"a":2}]
      <<91, 123, 34, 97, 34, 58, 49, 125, 44, 123, 34, 97, 34, 58, 50, 125, 93>>,
      \* [[1],[2]] x [3]
      <<91, 91, 49, 93, 44, 91, 50, 93, 93, 32, 120, 32, 91, 51, 93>>,
      \* {"a":1,,}
      <<123, 34, 97, 34, 58, 49, 44, 44, 125>>,
      \* {"a":1,<U+0001>}
      <<123, 34, 97, 34, 58, 49, 44, 1, 125>>,
      \* [1,<U+FEFF>]
      <<91, 49, 44, BOM, 93>> }

JsonDocs == NestedDocs \cup CaseDocs \cup BrokenDocs

JsonInputs ==
    JsonDocs
      \cup { Fenced(j) : j \in JsonDocs }
      \cup { FencedPlain(j) : j \in JsonDocs }
      \cup { FencedPadded(j) : j \in JsonDocs }
      \cup { InProse(j) : j \in JsonDocs }
      \cup UNION { TrailingCommas(j) : j \in JsonDocs }
      \cup JsonSamples

(***************************************************************************)
(* ParserService.clean_llm_json, stage by stage                            *)
(***************************************************************************)
Raised(message) == <<"ValueError", message>>

JsonInit ==
    /\ original_output \in JsonInputs
    /\ llm_output = original_output
    /\ extracted_json = None
    /\ fixed_json = None
    /\ jpc = "call"
    /\ jresult = None
    /\ jlog = <<>>

JsonIdle ==
    /\ original_output = <<>> /\ llm_output = <<>> /\ extracted_json = None
    /\ fixed_json = None /\ jpc = "idle" /\ jresult = None /\ jlog = <<>>

\* an emptiness test without the strip
Blank_empty_only(s) == s = <<>>

\* `not llm_output or not llm_output.strip()`
Blank(s) == s = <<>> \/ strip(s) = <<>>

\* the output is empty: ValueError at once
RejectEmpty ==
    /\ jpc = "call"
    /\ Blank(llm_output)
    /\ jresult' = Raised("LLM output is empty")
    /\ jpc' = "raised"
    /\ UNCHANGED <<original_output, llm_output, extracted_json, fixed_json, jlog>>

\* the messages of Step 1
FenceLog(blocks) ==
    IF blocks = <<>> THEN <<>>
    ELSE IF JsonBlocks(blocks) = {} THEN <<"Found code block(s)">>
    ELSE <<"Found code block(s)", "Extracted JSON from markdown code block">>

\* Step 1: the first fenced block with a brace or bracket replaces the text
StripFences ==
    /\ jpc = "call"
    /\ ~Blank(llm_output)
    /\ llm_output' = PickBlock(llm_output, code_blocks(llm_output))
    /\ jlog' = <<"Raw LLM output">> \o FenceLog(code_blocks(llm_output))
    /\ jpc' = "locate"
    /\ UNCHANGED <<original_output, extracted_json, fixed_json, jresult>>

\* Step 2: the candidate, or ValueError when the text holds none
LocateCandidate ==
    /\ jpc = "locate"
    /\ extracted_json' = locate_candidate(llm_output)
    /\ IF locate_candidate(llm_output) = None \/ locate_candidate(llm_output) = <<>>
       THEN /\ jlog' = Append(jlog, LocateStrategy(llm_output))
            /\ jresult' = Raised("No valid JSON object or array found in LLM output")
            /\ jpc' = "raised"
       ELSE /\ jlog' = jlog \o <<LocateStrategy(llm_output), "Extracted JSON string">>
            /\ jresult' = jresult
            /\ jpc' = "parse"
    /\ UNCHANGED <<original_output, llm_output, fixed_json>>

\* a strict parse that hands a failure to the partial extraction at once
StrictParse_skips_repair ==
    /\ jpc = "parse"
    /\ IF json_loads(extracted_json)[1]
       THEN /\ jresult' = json_loads(extracted_json)[2]
            /\ jlog' = Append(jlog, "Successfully parsed JSON")
            /\ jpc' = "returned"
       ELSE /\ jresult' = jresult
            /\ jlog' = Append(jlog, "Initial JSON parse failed")
            /\ jpc' = "partial"
    /\ UNCHANGED <<original_output, llm_output, extracted_json, fixed_json>>

\* Step 3: json.loads(extracted_json)
StrictParse ==
    /\ jpc = "parse"
    /\ IF json_loads(extracted_json)[1]
       THEN /\ jresult' = json_loads(extracted_json)[2]
            /\ jlog' = Append(jlog, "Successfully parsed JSON")
            /\ jpc' = "returned"
       ELSE /\ jresult' = jresult
            /\ jlog' = Append(jlog, "Initial JSON parse failed")
            /\ jpc' = "repair"
    /\ UNCHANGED <<original_output, llm_output, extracted_json, fixed_json>>

\* Step 4: the fixes, and json.loads again when they changed the text
Repair ==
    /\ jpc = "repair"
    /\ fixed_json' = fix_common_json_issues(extracted_json)
    /\ IF fixed_json' = extracted_json
       THEN /\ jlog' = Append(jlog, "Applying JSON fixes")
            /\ jresult' = jresult
            /\ jpc' = "partial"
       ELSE IF json_loads(fixed_json')[1]
       THEN /\ jlog' = jlog \o <<"Applying JSON fixes",
                                 "Successfully parsed JSON after auto-fix">>
            /\ jresult' = json_loads(fixed_json')[2]
            /\ jpc' = "returned"
       ELSE /\ jlog' = jlog \o <<"Applying JSON fixes", "JSON still invalid after fixes">>
            /\ jresult' = jresult
            /\ jpc' = "partial"
    /\ UNCHANGED <<original_output, llm_output, extracted_json>>

\* the message of the probe that gave the partial result
PartialLog(s) ==
    IF metadata_probe(s)[1] THEN "Extracted metadata from partial JSON"
    ELSE "Extracted sections from partial JSON"

\* Step 5: the partial extraction, or ValueError
Partial ==
    /\ jpc = "partial"
    /\ IF extract_partial_json(extracted_json) # None
       THEN /\ jresult' = extract_partial_json(extracted_json)
            /\ jlog' = jlog \o <<"Attempting partial JSON extraction",
                                 PartialLog(extracted_json), "Extracted partial JSON">>
            /\ jpc' = "returned"
       ELSE /\ jresult' = Raised("Invalid JSON in LLM output")
            /\ jlog' = Append(jlog, "Attempting partial JSON extraction")
            /\ jpc' = "raised"
    /\ UNCHANGED <<original_output, llm_output, extracted_json, fixed_json>>

(***************************************************************************)
(* LLMService.generate_response                                            *)
(***************************************************************************)
\* settings.LLM_MAX_RETRIES, and the argument of time.sleep
LLM_MAX_RETRIES == 3
BACKOFF_SECONDS == 2

\* "ok"
CONTENT == <<111, 107>>

\* what one provider call does: it returns the stripped content, which may be
\* empty, or requests raises ReadTimeout, ConnectTimeout (a Timeout and a
\* ConnectionError at once) or ConnectionError, or the call raises another
\* Exception (a status that is not 200, no choices, a body that is no JSON)
ProviderOutcomes ==
    { [kind |-> "content", content |-> CONTENT], [kind |-> "content", content |-> <<>>],
      [kind |-> "ReadTimeout", content |-> <<>>],
      [kind |-> "ConnectTimeout", content |-> <<>>],
      [kind |-> "ConnectionError", content |-> <<>>],
      [kind |-> "Exception", content |-> <<>>] }

MaxRetriesArg == 4

\* max_retries: None, or an integer
RetryArgs == { <<>> } \cup { <<k>> : k \in (-1)..MaxRetriesArg }

LlmInit ==
    /\ retries_arg \in RetryArgs
    /\ max_retries = retries_arg
    /\ lpc = "call"
    /\ attempt = 0
    /\ calls = <<>>
    /\ sleeps = <<>>
    /\ response = None

LlmIdle ==
    /\ retries_arg = <<>> /\ max_retries = <<>> /\ lpc = "idle" /\ attempt = 0
    /\ calls = <<>> /\ sleeps = <<>> /\ response = None

\* the except clause that takes the outcome of a call, in the order of the
\* clauses: Timeout, ConnectionError, Exception; an empty content raises
\* Exception inside the try
HandlerOf_connection_retried(o) ==
    IF o.kind = "content" /\ o.content # <<>> THEN "none"
    ELSE IF o.kind \in {"ReadTimeout", "ConnectTimeout"} THEN "Timeout"
    ELSE "Exception"

HandlerOf(o) ==
    IF o.kind = "content" /\ o.content # <<>> THEN "none"
    ELSE IF o.kind \in {"ReadTimeout", "ConnectTimeout"} THEN "Timeout"
    ELSE IF o.kind = "ConnectionError" THEN "ConnectionError"
    ELSE "Exception"

\* the exception that leaves generate_response
LlmRaised(message) == <<"Exception", message>>

\* max_retries = max_retries or self.settings.LLM_MAX_RETRIES; then the loop
\* over range(1, max_retries + 1) starts, or is empty
EnterRetryLoop ==
    /\ lpc = "call"
    /\ max_retries' = IF retries_arg = <<>> \/ retries_arg = <<0>>
                      THEN <<LLM_MAX_RETRIES>> ELSE retries_arg
    /\ IF max_retries'[1] >= 1
       THEN /\ attempt' = 1
            /\ lpc' = "attempt"
            /\ response' = response
       ELSE /\ attempt' = attempt
            /\ lpc' = "raised"
            /\ response' = LlmRaised("Failed after attempts")
    /\ UNCHANGED <<retries_arg, calls, sleeps>>

\* if attempt < max_retries: time.sleep(2); continue
Backoff ==
    /\ sleeps' = Append(sleeps, [seconds |-> BACKOFF_SECONDS, after |-> attempt])
    /\ attempt' = attempt + 1
    /\ lpc' = "attempt"
    /\ response' = response

\* the exception leaves the function
GiveUp(message) ==
    /\ lpc' = "raised"
    /\ response' = LlmRaised(message)
    /\ UNCHANGED <<attempt, sleeps>>

\* one pass of the loop: the provider call and the clause that handles it
Attempt ==
    /\ lpc = "attempt"
    /\ \E o \in ProviderOutcomes :
         /\ calls' = Append(calls, o)
         /\ IF HandlerOf(o) = "none"
            THEN /\ lpc' = "returned"
                 /\ response' = o.content
                 /\ UNCHANGED <<attempt, sleeps>>
            ELSE IF HandlerOf(o) = "Timeout"
            THEN IF attempt < max_retries[1] THEN Backoff
                 ELSE GiveUp("Timeout after attempts")
            ELSE IF HandlerOf(o) = "ConnectionError"
            THEN GiveUp("Connection error")
            ELSE IF attempt < max_retries[1] THEN Backoff
                 ELSE GiveUp(IF o.kind = "content" THEN "Empty response from model"
                             ELSE "provider error")
    /\ UNCHANGED <<retries_arg, max_retries>>

(***************************************************************************)
(* upload_document, process_document, process_document_background and the  *)
(* InMemoryDB they share                                                   *)
(***************************************************************************)
\* the documents of the store; the ids are uuid4 values, one per upload, and
\* no handler touches the record of another id
DocIds == {"doc_1"}

\* db.get(doc_id) of an id that is not stored
NoDocument == [status |-> "none"]

\* the POST /process requests of a run
MaxRequests == 3

\* DocumentStatus
UPLOADED == "uploaded"
PROCESSING == "processing"
COMPLETED == "completed"
FAILED == "failed"

\* document_data of upload_document
NewDocument ==
    [status |-> UPLOADED, processed_at |-> None, metadata |-> None, sections |-> <<>>,
     raw_text |-> None, error_message |-> None, llm_raw_response |-> None]

\* InMemoryDB.update: dict.update of the stored record, nothing for an id that
\* is not stored
db_update(store, doc_id, data) ==
    IF store[doc_id] = NoDocument THEN store
    ELSE [store EXCEPT ![doc_id] =
             [k \in DOMAIN store[doc_id] |->
                 IF k \in DOMAIN data THEN data[k] ELSE store[doc_id][k]]]

\* what the services can raise in the task, as str(e)
OcrFailures == {"Tesseract OCR not found", "cannot open the PDF"}
ExtractFailures == {"Connection error", "Failed to parse LLM response as JSON"}

\* metadata_dict and sections_list after the validation: None, empty or not
METADATA_1 == <<"case_number", "SC Appeal 1">>
SECTIONS_1 == <<"Facts", "Order">>
MetadataResults == {None, <<>>, METADATA_1}
SectionResults == {None, <<>>, SECTIONS_1}

\* `if metadata_dict:`
Truthy(v) == v # None /\ v # <<>>

DocsInit ==
    /\ storage = [d \in DocIds |-> NoDocument]
    /\ tasks = <<>>
    /\ responses = <<>>
    /\ clock = 0

DocsIdle == DocsInit

\* POST /upload: db.create(doc_id, document_data) under a fresh id
Upload(d) ==
    /\ storage[d] = NoDocument
    /\ storage' = [storage EXCEPT ![d] = NewDocument]
    /\ UNCHANGED <<tasks, responses, clock>>

\* the answer of POST /process/{doc_id}
Answer(d, code, message) ==
    responses' = Append(responses, [doc_id |-> d, code |-> code, message |-> message])

\* POST /process/{doc_id}: the handler has no await, so it runs as one step:
\* 404, 409, 'already processed', or the task is added and runs after the
\* response
PostProcess(d) ==
    /\ Len(responses) < MaxRequests
    /\ IF storage[d] = NoDocument
       THEN Answer(d, 404, "Document not found") /\ tasks' = tasks
       ELSE IF storage[d].status = PROCESSING
       THEN Answer(d, 409, "Document is already being processed") /\ tasks' = tasks
       ELSE IF storage[d].status = COMPLETED
       THEN Answer(d, 200, "Document already processed") /\ tasks' = tasks
       ELSE /\ Answer(d, 200, "Document processing started")
            /\ tasks' = Append(tasks, [doc_id |-> d, pc |-> "queued", error |-> None])
    /\ UNCHANGED <<storage, clock>>

\* a str and a datetime, values that are not None
Str(message) == <<"str", message>>
Datetime(now) == <<"datetime", now>>

\* the update of the except clause of the task, without its status
FailedUpdate_without_status(e, now) ==
    [error_message |-> Str(e), processed_at |-> Datetime(now)]

\* the update of the except clause of the task
FailedUpdate(e, now) ==
    [status |-> FAILED, error_message |-> Str(e), processed_at |-> Datetime(now)]

\* update_data of Step 5: metadata and sections only when they are truthy
CompletedUpdate(metadata_dict, sections_list, now) ==
    [status |-> COMPLETED, processed_at |-> Datetime(now), llm_raw_response |-> CONTENT]
      @@ (IF Truthy(metadata_dict) THEN [metadata |-> metadata_dict] ELSE <<>>)
      @@ (IF Truthy(sections_list) THEN [sections |-> sections_list] ELSE <<>>)

\* the except clause: the error is stored and the task is over
TaskFails(t, e) ==
    /\ storage' = db_update(storage, tasks[t].doc_id, FailedUpdate(e, clock + 1))
    /\ clock' = clock + 1
    /\ tasks' = [tasks EXCEPT ![t].pc = "done", ![t].error = Str(e)]

\* the task begins: db.update(doc_id, {"status": PROCESSING}) and db.get
TaskStart(t) ==
    /\ tasks[t].pc = "queued"
    /\ IF storage[tasks[t].doc_id] = NoDocument
       THEN TaskFails(t, "Document not found")
       ELSE /\ storage' = db_update(storage, tasks[t].doc_id, [status |-> PROCESSING])
            /\ tasks' = [tasks EXCEPT ![t].pc = "ocr"]
            /\ clock' = clock
    /\ UNCHANGED responses

\* the services are made and process_pdf runs: raw_text is stored, or one of
\* them raises
TaskOcr(t) ==
    /\ tasks[t].pc = "ocr"
    /\ \/ \E e \in OcrFailures : TaskFails(t, e)
       \/ /\ storage' = db_update(storage, tasks[t].doc_id, [raw_text |-> TEXT_ENGLISH])
          /\ tasks' = [tasks EXCEPT ![t].pc = "extract"]
          /\ clock' = clock
    /\ UNCHANGED responses

\* Steps 2 to 5: the LLM call and clean_llm_json, either of which may raise,
\* then the validation, which does not, and the update to COMPLETED
TaskExtract(t) ==
    /\ tasks[t].pc = "extract"
    /\ \/ \E e \in ExtractFailures : TaskFails(t, e)
       \/ \E m \in MetadataResults, sec \in SectionResults :
            /\ storage' = db_update(storage, tasks[t].doc_id,
                                    CompletedUpdate(m, sec, clock + 1))
            /\ clock' = clock + 1
            /\ tasks' = [tasks EXCEPT ![t].pc = "done"]
    /\ UNCHANGED responses

CleanIdle == clean_in = <<>> /\ cpc = "idle" /\ clean_once = <<>> /\ clean_twice = <<>>

SpecNeedsOcrInit == NeedsInit /\ CleanIdle /\ PdfIdle /\ JsonIdle /\ LlmIdle /\ DocsIdle
SpecNeedsOcrNext == Classify /\ UNCHANGED <<clean_vars, pdf_vars, json_vars, llm_vars, doc_vars>>
SpecNeedsOcr == SpecNeedsOcrInit /\ [][SpecNeedsOcrNext]_vars

(***************************************************************************)
(* Claims about needs_ocr                                                  *)
(***************************************************************************)
AsciiLetters == Lower \cup Upper
\* printable ASCII punctuation: string.punctuation
AsciiPunctuation == (33..47) \cup (58..64) \cup (91..96) \cup (123..126)

OnlyLettersAndPunctuation(s) ==
    s # None /\ \A i \in 1..Len(s) : s[i] \in AsciiLetters \cup AsciiPunctuation

OnlySinhala(s) == s # None /\ \A i \in 1..Len(s) : s[i] \in SinhalaBlock

\* C4: every string of at least 10 printable ASCII letters and punctuation
\* characters is accepted on the fast path (needs_ocr returns false).
C4_AsciiNeverNeedsOcr ==
    (npc = "returned" /\ OnlyLettersAndPunctuation(text) /\ Len(text) >= 10)
        => needs_result = FALSE

\* C5: every non-empty string of Sinhala-block characters, of any length,
\* needs OCR.
C5_SinhalaNeedsOcr ==
    (npc = "returned" /\ OnlySinhala(text) /\ Len(text) >= 1)
        => needs_result = TRUE

C5_Witness ==
    /\ npc = "returned" /\ OnlySinhala(text) /\ Len(text) > MIN_STRIPPED_CHARS
    /\ needs_result = TRUE

\* C6: needs_ocr returns false exactly when the stripped length is at least
\* 10, Sinhala characters are at most 1% of the length, no Tamil character
\* is present, other characters are at most 20% and ASCII-ish characters are
\* more than 80% of the length; None and the empty string need OCR.
C6_FastPathPolicy(s) ==
    /\ s # None
    /\ Len(strip(s)) >= 10
    /\ 100 * CountIn(s, SinhalaBlock) <= Len(s)
    /\ CountIn(s, TamilBlock) = 0
    /\ 5 * (Len(s) - CountIn(s, AsciiClass) - CountIn(s, SinhalaBlock)
              - CountIn(s, TamilBlock)) <= Len(s)
    /\ 5 * CountIn(s, AsciiClass) > 4 * Len(s)

C7_AnySinhalaNeedsOcr ==
    (npc = "returned" /\ text # None /\ CountIn(text, SinhalaBlock) >= 1)
        => needs_result = TRUE

(***************************************************************************)
(* Claims about clean_text                                                 *)
(***************************************************************************)
SpecCleanInit == CleanInit /\ NeedsIdle /\ PdfIdle /\ JsonIdle /\ LlmIdle /\ DocsIdle
SpecCleanNext ==
    (Clean \/ CleanAgain) /\ UNCHANGED <<needs_vars, pdf_vars, json_vars, llm_vars, doc_vars>>
SpecClean == SpecCleanInit /\ [][SpecCleanNext]_vars

\* C2: clean_text is idempotent: cleaning its own result changes nothing.
C2_CleanIdempotent == cpc = "recleaned" => clean_twice = clean_once

\* no two neighbours of the lines are both blank
NoBlankRun(lines) ==
    \A i \in 1..(Len(lines) - 1) : ~(strip(lines[i]) = <<>> /\ strip(lines[i + 1]) = <<>>)

\* C17: the text clean_text returns never holds two or more blank lines in a
\* row, also when a line is made only of characters that the allow-list
\* deletes.
C17_NoBlankRuns ==
    cpc \in {"cleaned", "recleaned"} => NoBlankRun(split_lines(clean_once))

\* C18: for every entry (wrong, correct) of encoding_fixes, a text with
\* 'wrong' inside a word comes back with 'correct' at that place: no entry is
\* shadowed by an earlier one and no corrected character is deleted later.
C18_EncodingFixApplied ==
    \A k \in 1..Len(encoding_fixes) :
        (cpc = "cleaned" /\ clean_in = InWords(encoding_fixes[k][1]))
            => clean_once = InWords(encoding_fixes[k][2])

(***************************************************************************)
(* Claims about process_pdf                                                *)
(***************************************************************************)
SpecPdfInit == PdfInit /\ NeedsIdle /\ CleanIdle /\ JsonIdle /\ LlmIdle /\ DocsIdle
SpecPdfNext ==
    /\ Construct \/ ConstructFails \/ OpenFails \/ Open \/ ProcessPage \/ Finish
    /\ UNCHANGED <<needs_vars, clean_vars, json_vars, llm_vars, doc_vars>>
SpecPdf == SpecPdfInit /\ [][SpecPdfNext]_vars

\* C1: when process_pdf returns for a document of N pages, the three strategy
\* counters add up to total_pages, and total_pages is N, whatever the pages
\* did and whatever the page limit.
C1_CountersPartitionTotal ==
    ppc = "returned" =>
        /\ metadata.fast_path_pages + metadata.ocr_fallback_pages
               + metadata.failed_pages = metadata.total_pages
        /\ metadata.total_pages = num_pages

\* the pages of the log recorded with strategy s
PagesWith(s) == { k \in 1..Len(page_log) : page_log[k].strategy = s }

\* the OCR of the page was run and gave no text: no image, an exception, or
\* only white space
OcrGaveNothing(o) ==
    \/ o.kind \in {"no_image", "raise"}
    \/ o.kind = "text" /\ strip(o.raw) = <<>>

FastUsable(f) == ~f.raises /\ ~Falsy(f.text) /\ ~needs_ocr(f.text)

\* the OCR of the page returned a non-empty text
OcrGaveText(o) == o.kind = "text" /\ strip(o.raw) # <<>>

\* the marker line of page k: "--- Page k ---"
PageMarker(k) ==
    <<HYPHEN, HYPHEN, HYPHEN, SPACE, 80, 97, 103, 101, SPACE>> \o IntToStr(k)
        \o <<SPACE, HYPHEN, HYPHEN, HYPHEN>>

\* C14: a page is FAST exactly when its fast text is non-empty and needs_ocr
\* of it is false; otherwise it is OCR exactly when the OCR returned non-empty
\* text; otherwise FAILED.  The OCR runs only for pages that are not FAST, and
\* a FAILED page adds no text, whatever its fast text was.
C14_StrategyPolicy ==
    /\ \A k \in 1..Len(page_log) :
         /\ page_log[k].strategy \in {"FAST", "OCR", "FAILED"}
         /\ page_log[k].strategy = "FAST" <=> FastUsable(page_log[k].fast)
         /\ ~FastUsable(page_log[k].fast)
              => (page_log[k].strategy = "OCR" <=> OcrGaveText(page_log[k].ocr))
         /\ page_log[k].ocr # NotCalled => page_log[k].strategy # "FAST"
         /\ page_log[k].strategy = "FAILED"
              => \A i \in 1..Len(all_text) : ~StartsWith(all_text[i], 1, PageMarker(k))
    /\ Len(all_text) = Cardinality(PagesWith("FAST") \cup PagesWith("OCR"))

\* one page of each strategy, the FAILED one with a non-empty fast text
C14_Witness ==
    /\ Len(page_log) = 3
    /\ page_log[1].strategy = "FAILED"
    /\ page_log[1].fast.text = TEXT_SINHALA
    /\ page_log[1].ocr.kind = "text"
    /\ page_log[2].strategy = "OCR"
    /\ page_log[3].strategy = "FAST"
    /\ Len(all_text) = 2

\* the pages that gave text, and the i-th of them in ascending order
KeptPages == PagesWith("FAST") \cup PagesWith("OCR")
KeptAt(i) == CHOOSE k \in KeptPages : Cardinality({j \in KeptPages : j <= k}) = i

\* the text the page gave
PageText(e) == IF e.strategy = "FAST" THEN e.fast.text ELSE strip(e.ocr.raw)

RECURSIVE SectionStart(_)
\* where section i starts in the combined text
SectionStart(i) ==
    IF i = 1 THEN 1 ELSE SectionStart(i - 1) + Len(all_text[i - 1]) + 2

\* the combined text is made of the sections, each two line feeds after the
\* one before, and of nothing else
MadeOfSections(combined) ==
    /\ Len(combined) = IF all_text = <<>> THEN 0
                       ELSE SectionStart(Len(all_text)) + Len(all_text[Len(all_text)]) - 1
    /\ \A i \in 1..Len(all_text) :
         /\ StartsWith(combined, SectionStart(i), all_text[i])
         /\ i > 1 => StartsWith(combined, SectionStart(i) - 2, <<LF, LF>>)

\* C15: pages are processed in ascending order, and the combined text holds
\* exactly one section per FAST or OCR page, in ascending page number, each
\* beginning with the line '--- Page k ---' of the page's own 1-based number
\* and separated from the next by a blank line; a FAILED page gives no
\* section.
C15_SectionsInPageOrder ==
    /\ Len(page_log) = page_num
    /\ Len(all_text) = Cardinality(KeptPages)
    /\ \A i \in 1..Len(all_text) :
         all_text[i] = PageMarker(KeptAt(i)) \o <<LF>> \o PageText(page_log[KeptAt(i)])
    /\ MadeOfSections(JoinSections(all_text, 1))

\* pages 1 and 3 gave text, page 2 failed between them
C15_Witness ==
    /\ ppc = "returned"
    /\ Len(page_log) = 3
    /\ page_log[1].strategy = "FAST"
    /\ page_log[2].strategy = "FAILED"
    /\ page_log[3].strategy = "OCR"
    /\ StartsWith(all_text[2], 1, PageMarker(3))

\* what one step of the service may do to the position of the caller; in the
\* loop the guard of ProcessPage or of Finish holds, so the run can go on
C16_Step ==
    /\ ppc' = "raised" => ppc = "call"
    /\ ppc = "loop" => ppc' \in {"loop", "returned"}
    /\ ppc' = "loop" => page_num' <= pages_to_process'
    /\ ppc' = "returned" =>
         /\ metadata'.character_count = Len(cleaned_text')
         /\ metadata'.total_pages = num_pages
    /\ ppc' = "RuntimeError" => ppc = "new" /\ tesseract = "missing"
    /\ tesseract = "missing" => ppc = "new" /\ ppc' = "RuntimeError"

\* C16: process_pdf raises only when the document cannot be opened (or its
\* pages cannot be read); once the document is open the run goes on, whatever
\* the pages do, until it returns the pair (cleaned_text, metadata).  And
\* OCRService() raises RuntimeError, and gives no service, when the OCR engine
\* is not found.
C16_RaisesOnlyAtOpen == [][C16_Step]_vars

\* every page of a document of three failed, two of them with an exception,
\* and process_pdf returned
C16_Witness ==
    /\ ppc = "returned"
    /\ Len(page_log) = 3
    /\ page_log[1].fast.raises
    /\ page_log[2].ocr.kind = "raise"
    /\ page_log[3].ocr.kind = "no_image"
    /\ metadata.failed_pages = 3
    /\ cleaned_text = <<>>

\* the text holds a line that is exactly the marker
OnOwnLine(lines, marker) == \E i \in 1..Len(lines) : lines[i] = marker

\* C19: cleaning leaves the page markers as they are: the text process_pdf
\* returns holds, for every FAST or OCR page, the line '--- Page k ---',
\* whatever the texts of the pages around it, also texts that begin or end
\* with digits and dashes.
C19_MarkersSurvive ==
    ppc = "returned" =>
        \A k \in KeptPages : OnOwnLine(split_lines(cleaned_text), PageMarker(k))

\* the counters of the pages that gave text agree with the sections
CountersAgree ==
    /\ metadata.successful_pages = metadata.fast_path_pages + metadata.ocr_fallback_pages
    /\ metadata.successful_pages = Len(all_text)

\* the three strategy counters, in a fixed order
StrategyCounters == <<metadata.fast_path_pages, metadata.ocr_fallback_pages,
                      metadata.failed_pages>>

\* one step of process_pdf keeps the counters in agreement, and a step of the
\* loop adds one to exactly one of the three strategy counters
C28_Step ==
    /\ CountersAgree
    /\ CountersAgree'
    /\ page_num' # page_num =>
         \E c \in 1..3 :
             \A o \in 1..3 :
                 StrategyCounters'[o] = StrategyCounters[o] + (IF o = c THEN 1 ELSE 0)
    /\ page_num' = page_num =>
         StrategyCounters' = StrategyCounters /\ all_text' = all_text

\* C28: in every state of process_pdf and in the returned metadata,
\* successful_pages = fast_path_pages + ocr_fallback_pages = the number of
\* sections of the combined text, and each processed page adds one to exactly
\* one of fast_path_pages, ocr_fallback_pages and failed_pages.
C28_CountersAgree == [][C28_Step]_vars

\* a returned run of three pages with two sections and one failure
C28_Witness ==
    /\ ppc = "returned"
    /\ metadata.successful_pages = 2
    /\ metadata.fast_path_pages = 1
    /\ metadata.ocr_fallback_pages = 1
    /\ metadata.failed_pages = 1
    /\ Len(all_text) = 2

(***************************************************************************)
(* Claims about clean_llm_json                                             *)
(***************************************************************************)
SpecJsonInit == JsonInit /\ NeedsIdle /\ CleanIdle /\ PdfIdle /\ LlmIdle /\ DocsIdle
SpecJsonNext ==
    /\ RejectEmpty \/ StripFences \/ LocateCandidate \/ StrictParse \/ Repair \/ Partial
    /\ UNCHANGED <<needs_vars, clean_vars, pdf_vars, llm_vars, doc_vars>>
SpecJson == SpecJsonInit /\ [][SpecJsonNext]_vars

\* the call is over
JsonDone == jpc \in {"returned", "raised"}

Logged(message) == \E i \in 1..Len(jlog) : jlog[i] = message

\* the text is a JSON document: json.loads gives an object or an array
IsDocument(s) == json_loads(s)[1] /\ json_loads(s)[2][1] \in {"obj", "arr"}
IsObjectText(s) == json_loads(s)[1] /\ json_loads(s)[2][1] = "obj"

\* C3: for every output that is itself a valid JSON object or array, of any
\* nesting depth, clean_llm_json returns exactly the value a strict parse of
\* the whole text yields: never an inner object, and an array stays an array.
C3_ValidJsonRoundTrip ==
    (JsonDone /\ IsDocument(original_output))
        => /\ jpc = "returned"
           /\ jresult = json_loads(original_output)[2]

RECURSIVE ObjectNesting(_)
\* how deep the objects of a value nest: 1 for an object that holds none
ObjectNesting(v) ==
    IF v[1] = "obj"
    THEN 1 + SetMax({ObjectNesting(v[2][k]) : k \in DOMAIN v[2]} \cup {0})
    ELSE IF v[1] = "arr"
    THEN SetMax({ObjectNesting(v[2][k]) : k \in 1..Len(v[2])} \cup {0})
    ELSE 0

\* the valid objects whose inner objects nest at most one level
OneLevelObjects ==
    {j \in JsonDocs : IsObjectText(j) /\ ObjectNesting(json_loads(j)[2]) <= 2}

\* J in a fence, tagged or not, with white space around or not, and in prose
\* without braces or brackets
Wrappings(j) == {Fenced(j), FencedPlain(j), FencedPadded(j), InProse(j)}

\* C8: for every valid JSON object J whose inner objects nest at most one
\* level, fenced or embedded in prose without braces and brackets, the located
\* candidate is exactly the text of J and clean_llm_json returns J's value.
C8_WrappedObjectLocated ==
    \A j \in OneLevelObjects :
        (JsonDone /\ original_output \in Wrappings(j))
            => /\ extracted_json = j
               /\ jpc = "returned"
               /\ jresult = json_loads(j)[2]

\* the closing braces and brackets of t outside its strings
StructuralClosers(t) ==
    {k \in 1..Len(t) : /\ t[k] \in {RBRACE, RBRACKET}
                       /\ Count(Slice(t, 1, k), DQUOTE) % 2 = 0}

\* t with one trailing comma before one of its closing characters
WithTrailingComma(t) ==
    {InsertComma(t, k, pad) : k \in StructuralClosers(t), pad \in CommaPads}

ValidObjects == {j \in JsonDocs : IsObjectText(j)}

\* C9: for every valid JSON object text T and every T' that is T with one
\* trailing comma before a closing brace or bracket, clean_llm_json(T') fails
\* the strict parse, succeeds after the repair and returns exactly the value
\* of T.  Stated for the T' that is located whole.
C9_TrailingCommaRepair ==
    \A t \in ValidObjects :
        (JsonDone /\ original_output \in WithTrailingComma(t)
                  /\ extracted_json = original_output)
            => /\ Logged("Initial JSON parse failed")
               /\ Logged("Successfully parsed JSON after auto-fix")
               /\ jpc = "returned"
               /\ jresult = json_loads(t)[2]

HasKey(v, key) == v[1] = "obj" /\ key \in DOMAIN v[2]

\* C10: the result of the partial extraction holds the key metadata exactly
\* when the metadata probe matches and its match parses, the key sections
\* exactly when the sections probe matches and its match parses, and it is
\* absent only when neither key was recovered.
C10_ProbesIndependent ==
    (JsonDone /\ Logged("Attempting partial JSON extraction"))
        => /\ jpc = "returned"
               <=> (metadata_probe(extracted_json)[1] \/ sections_probe(extracted_json)[1])
           /\ jpc = "returned"
               => /\ HasKey(jresult, LitMetadata) <=> metadata_probe(extracted_json)[1]
                  /\ HasKey(jresult, LitSections) <=> sections_probe(extracted_json)[1]

\* the place of a message in the order of the stages
StageRank(message) ==
    CASE message = "Raw LLM output" -> 1
      [] message = "Found code block(s)" -> 2
      [] message = "Extracted JSON from markdown code block" -> 3
      [] message \in {"Found balanced JSON object", "Found balanced JSON array",
                      "Extracted JSON using first/last brace positions",
                      "Extracted JSON array using first/last bracket positions",
                      "No JSON structure found in output"} -> 4
      [] message = "Extracted JSON string" -> 5
      [] message \in {"Successfully parsed JSON", "Initial JSON parse failed"} -> 6
      [] message = "Applying JSON fixes" -> 7
      [] message \in {"Successfully parsed JSON after auto-fix",
                      "JSON still invalid after fixes"} -> 8
      [] message = "Attempting partial JSON extraction" -> 9
      [] message \in {"Extracted metadata from partial JSON",
                      "Extracted sections from partial JSON"} -> 10
      [] message = "Extracted partial JSON" -> 11

\* the messages that report a result: nothing but the partial extraction's
\* own two closing messages may follow one
SuccessMessages ==
    {"Successfully parsed JSON", "Successfully parsed JSON after auto-fix",
     "Extracted partial JSON"}

\* the message logged just before place i
Before(i) == IF i > 1 THEN jlog[i - 1] ELSE ""

\* C11: the stages run in the order locate, strict parse, repair with one more
\* strict parse, partial extraction, failure; a later stage is entered only
\* when every earlier one failed, the strict parse is retried at most once,
\* and ValueError for a located candidate is raised only after the partial
\* extraction gave nothing.
C11_StageOrder ==
    /\ \A i, j \in 1..Len(jlog) : i < j => StageRank(jlog[i]) < StageRank(jlog[j])
    /\ \A i \in 1..Len(jlog) :
         /\ jlog[i] \in SuccessMessages => i = Len(jlog)
         /\ StageRank(jlog[i]) = 6 => Before(i) = "Extracted JSON string"
         /\ jlog[i] = "Applying JSON fixes" => Before(i) = "Initial JSON parse failed"
         /\ StageRank(jlog[i]) = 8 => Before(i) = "Applying JSON fixes"
         /\ jlog[i] = "Attempting partial JSON extraction"
              => Before(i) \in {"Applying JSON fixes", "JSON still invalid after fixes"}
    /\ (jpc = "raised" /\ extracted_json # None)
         => /\ jlog[Len(jlog)] = "Attempting partial JSON extraction"
            /\ extract_partial_json(extracted_json) = None
    /\ (jpc = "returned")
         => jlog[Len(jlog)] \in SuccessMessages

\* every stage ran and failed: the error is raised at the end of the chain
C11_Witness ==
    /\ jpc = "raised"
    /\ Logged("JSON still invalid after fixes")
    /\ Logged("Attempting partial JSON extraction")

\* a run on d ends in the first strict parse with the whole of d: d is not
\* blank, holds no fenced block, is its own candidate and parses
ParsedAtOnce(d) ==
    /\ ~Blank(d)
    /\ code_blocks(d) = <<>>
    /\ locate_candidate(d) = d
    /\ json_loads(d)[1]

\* C12: a result tells the stage that gave it (SUCCESS, REPAIRED or PARTIAL):
\* what the partial extraction returns is never what the first strict parse
\* returns for some other output, so the caller can tell the two apart.
C12_ResultTellsStage ==
    (jpc = "returned" /\ Logged("Extracted partial JSON"))
        => \A d \in JsonInputs : ParsedAtOnce(d) => json_loads(d)[2] # jresult

\* the matches of the object pattern and of the array pattern in the text
ObjectMatches(s) == FindIter(s, 1, LBRACE, RBRACE)
ArrayMatches(s) == FindIter(s, 1, LBRACKET, RBRACKET)

\* c is the longest of the matches, and the earliest of the longest
IsLongestEarliest(cands, c) ==
    \E k \in 1..Len(cands) :
        /\ cands[k] = c
        /\ \A j \in 1..Len(cands) :
             \/ Len(cands[j]) < Len(c)
             \/ (Len(cands[j]) = Len(c) /\ k <= j)

\* Step 2 has run on the working text
Located == Logged("Extracted JSON string") \/ Logged("No JSON structure found in output")

\* C20: when the working text holds an object match, the candidate is the
\* longest object match, the earliest on ties; an array match is the
\* candidate only when the text holds no object match at all, also when the
\* object matches lie inside an enclosing array.
C20_LongestObjectFirst ==
    Located =>
        /\ ObjectMatches(llm_output) # <<>>
             => /\ IsLongestEarliest(ObjectMatches(llm_output), extracted_json)
                /\ Logged("Found balanced JSON object")
        /\ Logged("Found balanced JSON array")
             => /\ ObjectMatches(llm_output) = <<>>
                /\ IsLongestEarliest(ArrayMatches(llm_output), extracted_json)

\* two object matches of the same length inside an array that matches as a
\* whole: the first object is the candidate
C20_Witness ==
    /\ Located
    /\ PatternEnd(llm_output, 1, LBRACKET, RBRACKET) = Len(llm_output) + 1
    /\ Len(ObjectMatches(llm_output)) = 2
    /\ Len(ObjectMatches(llm_output)[1]) = Len(ObjectMatches(llm_output)[2])
    /\ ObjectMatches(llm_output)[1] # ObjectMatches(llm_output)[2]
    /\ extracted_json = ObjectMatches(llm_output)[1]

\* the text holds an opening character with a closing one somewhere after it
HasPair(s, open, close) ==
    \E i \in 1..Len(s) : \E j \in (i + 1)..Len(s) : s[i] = open /\ s[j] = close

\* nothing but white space, the empty text included
WhiteSpaceOnly(s) == \A i \in 1..Len(s) : IsSpace(s[i])

\* the messages of the parse, the fixes and the partial extraction
ParseMessages == { m \in {jlog[i] : i \in 1..Len(jlog)} : StageRank(m) >= 5 }

\* C21: an empty or white-space-only output, and a working text with neither
\* a '{' before a later '}' nor a '[' before a later ']', is answered with
\* ValueError without any parse, repair or partial extraction.
C21_AbsentRaises ==
    /\ WhiteSpaceOnly(original_output) =>
         /\ jpc \in {"idle", "call", "raised"}
         /\ jlog = <<>>
         /\ jpc = "raised" => jresult = Raised("LLM output is empty")
    /\ (jpc \notin {"idle", "call", "locate"} /\ ~WhiteSpaceOnly(original_output)
          /\ ~HasPair(llm_output, LBRACE, RBRACE)
          /\ ~HasPair(llm_output, LBRACKET, RBRACKET)) =>
         /\ jpc = "raised"
         /\ jresult = Raised("No valid JSON object or array found in LLM output")
         /\ ParseMessages = {}
         /\ fixed_json = None

\* a text with its closing bracket before the opening one was refused
C21_Witness ==
    /\ jpc = "raised"
    /\ Contains(llm_output, LBRACKET) /\ Contains(llm_output, RBRACKET)
    /\ jresult = Raised("No valid JSON object or array found in LLM output")
    /\ jlog = <<"Raw LLM output", "No JSON structure found in output">>

\* the candidate came from the slice from the first opening to the last
\* closing character
SliceUsed ==
    \/ Logged("Extracted JSON using first/last brace positions")
    \/ Logged("Extracted JSON array using first/last bracket positions")

\* C30: the slicing fallback is reached: an object nested more than one level
\* deep has no balanced match of the pattern, so the slice from its first '{'
\* to its last '}' becomes the candidate.
C30_DeepObjectSliced ==
    (Located /\ IsObjectText(original_output)
       /\ ObjectNesting(json_loads(original_output)[2]) >= 3)
        => /\ SliceUsed
           /\ extracted_json = original_output

\* a comma followed only by white space and then '}' or ']'
HasTrailingComma(s) ==
    \E i \in 1..Len(s) :
        /\ s[i] = COMMA
        /\ SkipSpace(s, i + 1) <= Len(s)
        /\ s[SkipSpace(s, i + 1)] \in {RBRACE, RBRACKET}

\* C29: the text _fix_common_json_issues returns holds no trailing comma,
\* also for doubled commas and for a control character between the comma and
\* the closing bracket, so a second repair changes nothing.
C29_NoTrailingCommaLeft ==
    fixed_json # None =>
        /\ ~HasTrailingComma(fixed_json)
        /\ fix_common_json_issues(fixed_json) = fixed_json

(***************************************************************************)
(* Claims about LLMService.generate_response                               *)
(***************************************************************************)
SpecLlmInit == LlmInit /\ NeedsIdle /\ CleanIdle /\ PdfIdle /\ JsonIdle /\ DocsIdle
SpecLlmNext ==
    /\ EnterRetryLoop \/ Attempt
    /\ UNCHANGED <<needs_vars, clean_vars, pdf_vars, json_vars, doc_vars>>
SpecLlm == SpecLlmInit /\ [][SpecLlmNext]_vars

\* R: the caller's max_retries when one is given, LLM_MAX_RETRIES otherwise
RetryBudget == IF retries_arg = <<>> THEN LLM_MAX_RETRIES ELSE Max2(retries_arg[1], 0)

\* the call gave a non-empty content
GaveContent(o) == o.kind = "content" /\ o.content # <<>>

\* C22: generate_response makes at most R provider calls, R being the
\* caller's max_retries when given (0 included) and LLM_MAX_RETRIES otherwise;
\* it sleeps the same 2 seconds between consecutive attempts, returns the
\* first non-empty content, never an empty string, and raises once the R-th
\* attempt has failed.
C22_AtMostRCalls ==
    lpc # "idle" =>
        /\ Len(calls) <= RetryBudget
        /\ \A i \in 1..Len(sleeps) :
             sleeps[i].seconds = BACKOFF_SECONDS /\ sleeps[i].after = i
        /\ \A i \in 1..(Len(calls) - 1) : ~GaveContent(calls[i])
        /\ lpc = "returned" =>
             /\ GaveContent(calls[Len(calls)])
             /\ response = calls[Len(calls)].content
             /\ response # <<>>
        /\ (lpc = "raised" /\ Len(calls) < RetryBudget) =>
             calls[Len(calls)].kind = "ConnectionError"

\* a connection error was the last thing the provider did
EndsInConnectionError ==
    Len(calls) >= 1 /\ calls[Len(calls)].kind = "ConnectionError"

\* C27: a connection error on any attempt ends generate_response at once
\* with an exception, with no further provider call and no sleep after it,
\* however many retries remain; a timeout or any other error is retried
\* until the retry count is used up.
C27_ConnectionErrorFinal ==
    \A i \in 1..Len(calls) :
        /\ calls[i].kind = "ConnectionError" =>
             /\ i = Len(calls)
             /\ lpc = "raised"
             /\ response = LlmRaised("Connection error")
             /\ Len(sleeps) = i - 1
        /\ (~GaveContent(calls[i]) /\ calls[i].kind # "ConnectionError") =>
             IF i < max_retries[1]
             THEN /\ lpc = "attempt" \/ i < Len(calls)
                  /\ Len(sleeps) >= i
                  /\ sleeps[i] = [seconds |-> BACKOFF_SECONDS, after |-> i]
             ELSE lpc = "raised" /\ i = Len(calls) /\ Len(sleeps) = i - 1

\* the second call met a connection error with a retry left, after a timeout
\* that was retried
C27_Witness ==
    /\ lpc = "raised"
    /\ max_retries = <<3>>
    /\ Len(calls) = 2
    /\ calls[1].kind = "ReadTimeout"
    /\ calls[2].kind = "ConnectionError"
    /\ Len(sleeps) = 1

(***************************************************************************)
(* Claims about the document workflow                                      *)
(***************************************************************************)
SpecDocsInit == DocsInit /\ NeedsIdle /\ CleanIdle /\ PdfIdle /\ JsonIdle /\ LlmIdle
TaskStep == \E t \in 1..Len(tasks) : TaskStart(t) \/ TaskOcr(t) \/ TaskExtract(t)
SpecDocsNext ==
    /\ \/ \E d \in DocIds : Upload(d) \/ PostProcess(d)
       \/ TaskStep
    /\ UNCHANGED <<needs_vars, clean_vars, pdf_vars, json_vars, llm_vars>>
SpecDocs == SpecDocsInit /\ [][SpecDocsNext]_vars

\* one step of the task t, when there is a task t
TaskRun(t) ==
    /\ t <= Len(tasks)
    /\ TaskStart(t) \/ TaskOcr(t) \/ TaskExtract(t)
    /\ UNCHANGED <<needs_vars, clean_vars, pdf_vars, json_vars, llm_vars>>

\* BackgroundTasks runs every task that was added, after the response, and the
\* task, a plain function in a worker thread, runs on to its end
SpecDocsFair == SpecDocs /\ \A t \in 1..MaxRequests : WF_vars(TaskRun(t))

\* the run t is over and has left its document COMPLETED or FAILED, with
\* processed_at set, and with the error in error_message when it failed
EndedWell(t) ==
    /\ t <= Len(tasks)
    /\ tasks[t].pc = "done"
    /\ storage[tasks[t].doc_id].status \in {COMPLETED, FAILED}
    /\ storage[tasks[t].doc_id].processed_at # None
    /\ tasks[t].error # None =>
         /\ storage[tasks[t].doc_id].status = FAILED
         /\ storage[tasks[t].doc_id].error_message = tasks[t].error

\* the step that ends a run ends it well
C23_Step ==
    \A t \in 1..Len(tasks) :
        tasks[t].pc # "done" /\ tasks'[t].pc = "done" => EndedWell(t)'

\* a document whose runs are all over is not left PROCESSING
C23_NoneRunning(d) ==
    \A t \in 1..Len(tasks) : tasks[t].doc_id = d => tasks[t].pc = "done"

\* C23: every run of process_document_background for a stored document comes
\* to an end, and the step that ends it leaves the document COMPLETED or FAILED
\* with processed_at set, and FAILED with the error in error_message when a
\* step of it raised; a document none of whose runs is still queued or running
\* is never PROCESSING
C23_RunEndsCompletedOrFailed ==
    /\ [][C23_Step]_vars
    /\ [](\A d \in DocIds : C23_NoneRunning(d) => storage[d].status # PROCESSING)
    /\ \A t \in 1..MaxRequests :
         (t <= Len(tasks) /\ tasks[t].pc # "done") ~> EndedWell(t)

\* a run that failed in the LLM step has ended, its document FAILED
C23_Witness ==
    /\ Len(tasks) = 1
    /\ tasks[1].pc = "done"
    /\ tasks[1].error = Str("Connection error")
    /\ storage[tasks[1].doc_id].status = FAILED
    /\ storage[tasks[1].doc_id].error_message = Str("Connection error")
    /\ storage[tasks[1].doc_id].processed_at = Datetime(1)

\* the runs for the document d that are queued or running
ActiveTasks(d) == {t \in 1..Len(tasks) : tasks[t].doc_id = d /\ tasks[t].pc # "done"}

\* a request for a document with a queued or running task is answered 409
C24_Step ==
    \A d \in DocIds :
        /\ ActiveTasks(d) # {}
        /\ Len(responses') = Len(responses) + 1
        /\ responses'[Len(responses')].doc_id = d
        => /\ responses'[Len(responses')].code = 409
           /\ responses'[Len(responses')].message = "Document is already being processed"
           /\ tasks' = tasks

\* C24: a document is never processed twice at once: at any time at most one
\* process_document_background task for a doc_id is queued or running, and a
\* request that arrives while one is queued or running is rejected with 409
\* 'Document is already being processed' and adds no task.
C24_NeverTwiceAtOnce ==
    /\ [](\A d \in DocIds : Cardinality(ActiveTasks(d)) <= 1)
    /\ [][C24_Step]_vars

\* the status, metadata and sections of a COMPLETED document stay as they are,
\* and a request for it is answered 'Document already processed' with no task
C25_Step ==
    \A d \in DocIds :
        storage[d].status = COMPLETED =>
            /\ storage'[d].status = COMPLETED
            /\ storage'[d].metadata = storage[d].metadata
            /\ storage'[d].sections = storage[d].sections
            /\ Len(responses') = Len(responses) + 1 =>
                 /\ responses'[Len(responses')].message = "Document already processed"
                 /\ tasks' = tasks

\* C25: COMPLETED is a terminal status: once a document is COMPLETED, no later
\* request or background task changes its status, metadata or sections, and
\* POST /process on it returns 'Document already processed' and queues
\* nothing.
C25_CompletedIsTerminal == [][C25_Step]_vars

\* C26: in every reachable state of the store a COMPLETED document has
\* error_message None, also one that failed once and was processed again with
\* success.
C26_CompletedHasNoError ==
    \A d \in DocIds :
        storage[d].status = COMPLETED => storage[d].error_message = None

=============================================================================
